---------------------------- MODULE Spec2Model ----------------------------
(***************************************************************************)
(* A model of the timon storage engine (src/src/timon_engine): the         *)
(* metadata catalog of DatabaseManager, the day-file insert path with its  *)
(* JSON -> Arrow -> Parquet -> JSON round trip and unique-key              *)
(* deduplication, and the local query path.                                *)
(*                                                                         *)
(* The file system is modelled by three variables: the metadata document   *)
(* (metadata.json), the directory tree under <storage>/data and the day    *)
(* files.  A DatabaseManager handle owns an in-memory copy of the          *)
(* metadata (mem) and runs one operation at a time; a catalog operation    *)
(* is a sequence of steps, one per file-system call, and pc records the    *)
(* position of each handle.  Spec, InsertSpec and QuerySpec start an       *)
(* operation only when no other handle is inside one (every operation      *)
(* runs to completion); ConcSpec interleaves the steps of two handles       *)
(* freely, as the lock-free code allows.  ValidateSpec applies the record  *)
(* validation to every schema and record of a bounded set.  PathsSpec      *)
(* walks the loop of generate_paths over a bounded set of date ranges,     *)
(* StartSpec follows init_timon from an unbound process-wide handle, and   *)
(* SinkSpec follows sink_monthly_parquet (cloud_sync.rs) over the day      *)
(* files of two months, the bucket and the local monthly aggregates.       *)
(* PathsLiveSpec runs the Month loop of generate_paths under fairness,     *)
(* past the bound of the list it records.  ApiSpec                         *)
(* enters the public operations of mod.rs from an unbound process,         *)
(* ShareSpec sinks the same table name of two databases into the one       *)
(* bucket, RewriteSpec applies the rewriting of the user's SQL to a        *)
(* bounded set of statements, RaceSpec interleaves the catalog writes of   *)
(* two handles, and KeySpec inserts into tables with a unique key.         *)
(***************************************************************************)
EXTENDS Integers, Sequences, FiniteSets, Bags, TLC

VARIABLES
  meta,      \* content of <storage>/metadata.json: db -> table -> Table
  dbDirs,    \* database directories existing under <storage>/data
  tblDirs,   \* table directories <<db, table>> existing under <storage>/data
  files,     \* day files: <<db, table, day>> -> the rows read_parquet_file returns
  today,     \* the current UTC day (Utc::now()), as a day number
  pc,        \* per handle: the step the handle is at ("idle" between operations)
  args,      \* per handle: the operation in flight and its arguments
  mem,       \* per handle: DatabaseManager.metadata, the in-memory copy, while an
             \* operation runs (every operation reloads it before reading it)
  ret,       \* per handle: the Result of the last completed operation
  inserted,  \* history: <<db, table, day>> -> the batches of the successful inserts
  dbOwner,   \* history: db -> the handle whose create_database made it (0: none)
  tblOwner,  \* history: <<db, table>> -> the handle whose create_table made it
  vin,       \* the input handed to the pure function a specification applies
  vout,      \* the outcome of that function ("none" before it ran)
  manager,   \* DATABASE_MANAGER: the storage path the process-wide handle is
             \* bound to (Unset before the first init_timon)
  stores,    \* per storage path: whether <path>/data and <path>/metadata.json
             \* exist (meta is the document of the path the handle is bound to)
  initRet,   \* the TimonResult of the last init_timon call, with its history
  cloud_manager, \* CLOUD_STORAGE_MANAGER: whether init_bucket has bound it
  panics,    \* history: the calls of public operations that unwound in a
             \* panic instead of returning, as <<operation, cause>>
  bucket,    \* the objects of the bucket: target path -> content
  monthly,   \* the monthly aggregates in the table directories:
             \* <<db, table, month>> -> content
  sink       \* the sink_monthly_parquet call in flight or last returned

\* the state init_timon works on
process == <<manager, stores, initRet, cloud_manager, panics>>

\* the state sink_monthly_parquet adds to the disk
cloud == <<bucket, monthly, sink>>

vars == <<meta, dbDirs, tblDirs, files, today, pc, args, mem, ret,
          inserted, dbOwner, tblOwner, vin, vout, manager, stores, initRet,
          cloud_manager, panics, bucket, monthly, sink>>

-----------------------------------------------------------------------------
(* Bounds of the model *)

\* days the clock can reach (today ranges over 1..NumDays)
NumDays == 2
\* longest batch handed to one insert call
MaxBatchLen == 2
\* most records inserted successfully in one run, over all day files
MaxRecords == 3
\* most paths generate_paths is followed to (a longer list is not followed)
MaxPaths == 34
\* days the clock of the sink specification can reach
SinkDays == 3

-----------------------------------------------------------------------------
(* Generic helpers on partial functions and sequences *)

Range(s) == {s[i] : i \in DOMAIN s}

EmptyFn == [x \in {} |-> 0]

With(f, k, v) == [x \in (DOMAIN f) \cup {k} |-> IF x = k THEN v ELSE f[x]]

Without(f, k) == [x \in (DOMAIN f) \ {k} |-> f[x]]

SeqsUpTo(S, n) == UNION {[1..m -> S] : m \in 0..n}

\* every arrangement of the elements of the index set I as a sequence
Arrangements(I) ==
  {p \in [1..Cardinality(I) -> I] : \A i, j \in DOMAIN p : i # j => p[i] # p[j]}

SeqToBag(s) ==
  [x \in Range(s) |-> Cardinality({i \in DOMAIN s : s[i] = x})]

-----------------------------------------------------------------------------
(* JSON values.  A value is [ty, n, s]: ty is the serde_json kind, n the   *)
(* number (an f64 is held as ten times its value, so 25 is 2.5), s the     *)
(* text of a string.  A JSON object (a record of a batch, a row of a day   *)
(* file) is a function from the names of its keys to values.               *)

IntV(i) == [ty |-> "i64", n |-> i, s |-> ""]
FloatV(tenths) == [ty |-> "f64", n |-> tenths, s |-> ""]
StrV(t) == [ty |-> "string", n |-> 0, s |-> t]
KindV(k) == [ty |-> k, n |-> 0, s |-> ""]

\* an array; elem is the serde_json kind of its first element ("" when empty)
ArrV(elem) == [ty |-> "array", n |-> 0, s |-> elem]

\* the keys of JSON objects, in the order serde_json's Map iterates them
FieldOrder == <<"k", "v", "z">>

-----------------------------------------------------------------------------
(* SchemaDoc.  json says what serde_json::from_str made of the text        *)
(* ("invalid": not JSON, "nonobject": JSON but no object, "object");       *)
(* rules maps a field name to its rule.  A rule records whether it is an   *)
(* object, whether it has a "type" key and whether that is a string, the   *)
(* type string as a sequence of tokens with "|" a token of its own, and    *)
(* "required" and "unique" as "absent", "true", "false" or "other" (a      *)
(* value that is no boolean).                                              *)

Rule(type, required, unique) ==
  [obj |-> TRUE, hasType |-> TRUE, typeStr |-> TRUE, type |-> type,
   required |-> required, unique |-> unique]

SchemaObj(rules) == [json |-> "object", rules |-> rules]

\* db_manager.rs validate_schema_structure: the loop over the schema's fields
RECURSIVE StructureLoop(_, _)
StructureLoop(rules, fs) ==
  IF fs = <<>> THEN "ok"
  ELSE LET f == Head(fs) IN
    IF f \notin DOMAIN rules THEN StructureLoop(rules, Tail(fs))
    ELSE IF ~rules[f].obj THEN "invalid_rules"
    ELSE IF ~rules[f].hasType THEN "missing_type"
    ELSE IF rules[f].required \notin {"absent", "true", "false"}
      THEN "invalid_required"
    ELSE StructureLoop(rules, Tail(fs))

\* a validate_schema_structure that looks at no field
validate_schema_structure_lax(schema) ==
  IF schema.json # "object" THEN "schema_not_object" ELSE "ok"

validate_schema_structure(schema) ==
  IF schema.json # "object" THEN "schema_not_object"
  ELSE StructureLoop(schema.rules, FieldOrder)

get_value_type(value) ==
  IF value.ty = "f64" THEN "float"
  ELSE IF value.ty \in {"i64", "u64"} THEN "int"
  ELSE IF value.ty = "string" THEN "string"
  ELSE IF value.ty = "bool" THEN "bool"
  ELSE IF value.ty = "array" THEN "array"
  ELSE "unknown"

\* field_type.split('|'): the segments between the "|" tokens
RECURSIVE SplitBar(_, _)
SplitBar(str, cur) ==
  IF str = <<>> THEN <<cur>>
  ELSE IF Head(str) = "|" THEN <<cur>> \o SplitBar(Tail(str), <<>>)
  ELSE SplitBar(Tail(str), Append(cur, Head(str)))

\* a validate_field_type that takes the whole type string for one type
validate_field_type_whole(field_type, value) ==
  IF field_type = <<get_value_type(value)>> THEN "ok" ELSE "type_mismatch"

validate_field_type(field_type, value) ==
  LET actual_type == get_value_type(value)
      expected_types == SplitBar(field_type, <<>>)
  IN IF \E i \in DOMAIN expected_types : expected_types[i] = <<actual_type>>
       THEN "ok" ELSE "type_mismatch"

\* validate_data_against_schema: the loop rejecting keys the schema lacks
RECURSIVE UnexpectedLoop(_, _, _)
UnexpectedLoop(rules, data, fs) ==
  IF fs = <<>> THEN "ok"
  ELSE IF Head(fs) \in DOMAIN data /\ Head(fs) \notin DOMAIN rules
    THEN "unexpected_field"
  ELSE UnexpectedLoop(rules, data, Tail(fs))

\* validate_data_against_schema: the loop over the schema's fields
RECURSIVE RulesLoop(_, _, _)
RulesLoop(rules, data, fs) ==
  IF fs = <<>> THEN "ok"
  ELSE LET f == Head(fs) IN
    IF f \notin DOMAIN rules THEN RulesLoop(rules, data, Tail(fs))
    ELSE IF ~rules[f].obj THEN "invalid_rules"
    ELSE IF rules[f].required = "true" /\ f \notin DOMAIN data
      THEN "missing_required"
    ELSE IF f \in DOMAIN data
            /\ validate_field_type(
                 IF rules[f].hasType /\ rules[f].typeStr THEN rules[f].type
                 ELSE <<>>, data[f]) # "ok"
      THEN "type_mismatch"
    ELSE RulesLoop(rules, data, Tail(fs))

validate_data_against_schema(schema, json_data) ==
  IF schema.json # "object" THEN "schema_not_object"
  ELSE LET r1 == UnexpectedLoop(schema.rules, json_data, FieldOrder) IN
    IF r1 # "ok" THEN r1
    ELSE RulesLoop(schema.rules, json_data, FieldOrder)

\* an insert loop that validates the first record of the batch only
ValidateFirst(schema, recs) ==
  IF recs = <<>> THEN "ok"
  ELSE validate_data_against_schema(schema, Head(recs))

\* insert's loop `for json_value in &json_values { validate(..)? }`
RECURSIVE ValidateAll(_, _)
ValidateAll(schema, recs) ==
  IF recs = <<>> THEN "ok"
  ELSE LET r == validate_data_against_schema(schema, Head(recs)) IN
    IF r # "ok" THEN r ELSE ValidateAll(schema, Tail(recs))

\* helpers.rs get_unique_fields, in the schema's iteration order
get_unique_fields(schema) ==
  IF schema.json # "object" THEN <<>>
  ELSE SelectSeq(FieldOrder,
         LAMBDA f : f \in DOMAIN schema.rules /\ schema.rules[f].obj
                    /\ schema.rules[f].unique = "true")

-----------------------------------------------------------------------------
(* The codec bridge: helpers.rs json_to_arrow, and the rows that           *)
(* read_parquet_file / row_to_json return for the file written from its    *)
(* arrays.                                                                 *)

\* json_to_arrow: the Arrow DataType a single JSON value asks for
NewType(value) ==
  IF value.ty = "f64" THEN "Float64"
  ELSE IF value.ty \in {"i64", "u64"} THEN "Int64"
  ELSE IF value.ty = "string" THEN "Utf8"
  ELSE IF value.ty = "bool" THEN "Boolean"
  ELSE IF value.ty = "array" THEN
    (IF value.s = "f64" THEN "List<Float64>"
     ELSE IF value.s \in {"i64", "u64"} THEN "List<Int64>"
     ELSE IF value.s = "string" THEN "List<Utf8>"
     ELSE IF value.s = "bool" THEN "List<Boolean>"
     ELSE "List<Null>")
  ELSE "Null"

resolve_data_type_conflict(current, new_type) ==
  IF current = "none" THEN new_type
  ELSE IF current = "Int64" /\ new_type = "Float64" THEN "Float64"
  ELSE IF current = "Float64" /\ new_type = "Int64" THEN "Float64"
  ELSE IF current = new_type THEN current
  ELSE new_type

\* the type of column f after scanning the records in order
RECURSIVE FieldType(_, _, _)
FieldType(recs, f, current) ==
  IF recs = <<>> THEN current
  ELSE FieldType(Tail(recs), f,
         IF f \in DOMAIN Head(recs)
           THEN resolve_data_type_conflict(current, NewType(Head(recs)[f]))
           ELSE current)

\* the kind of the elements of a List<T> column
ElemKind(dt) ==
  IF dt = "List<Float64>" THEN "f64"
  ELSE IF dt = "List<Int64>" THEN "i64"
  ELSE IF dt = "List<Utf8>" THEN "string"
  ELSE "bool"

\* One cell of column f of type dt, as it reads back from the written file:
\* as_i64 / as_f64 / as_str / as_bool with unwrap_or_default, and the list
\* builders (a record without an array in a list column appends a null slot).
Cell(dt, rec, f) ==
  LET has == f \in DOMAIN rec IN
  IF dt = "Int64" THEN
    (IF has /\ rec[f].ty \in {"i64", "u64"} THEN IntV(rec[f].n) ELSE IntV(0))
  ELSE IF dt = "Float64" THEN
    (IF has /\ rec[f].ty = "f64" THEN rec[f]
     ELSE IF has /\ rec[f].ty \in {"i64", "u64"} THEN FloatV(10 * rec[f].n)
     ELSE FloatV(0))
  ELSE IF dt = "Utf8" THEN
    (IF has /\ rec[f].ty = "string" THEN rec[f] ELSE StrV(""))
  ELSE IF dt = "Boolean" THEN
    (IF has /\ rec[f].ty = "bool" THEN rec[f] ELSE KindV("bool"))
  ELSE
    (IF has /\ rec[f].ty = "array" THEN
       (IF rec[f].s \in {"", ElemKind(dt)} THEN rec[f]
        ELSE [ty |-> "array", n |-> 1, s |-> ElemKind(dt)])
     ELSE KindV("null"))

\* json_to_arrow followed by the write and the read back: err is the error
\* json_to_arrow returns ("ok" when none), rows the rows of the file, nulls
\* whether a list column (declared non-nullable) holds a null slot.
json_to_arrow(json_values) ==
  LET cols == UNION {DOMAIN json_values[i] : i \in DOMAIN json_values}
      dt == [f \in cols |-> FieldType(json_values, f, "none")]
      rows == [i \in DOMAIN json_values |->
                 [f \in cols |-> Cell(dt[f], json_values[i], f)]]
  IN IF json_values = <<>>
       THEN [err |-> "no_data", rows |-> <<>>, nulls |-> FALSE]
     ELSE IF \E f \in cols : dt[f] \in {"Null", "List<Null>"}
       THEN [err |-> "unsupported_type", rows |-> <<>>, nulls |-> FALSE]
     ELSE [err |-> "ok", rows |-> rows,
           nulls |-> \E i \in DOMAIN rows, f \in cols :
                        rows[i][f].ty = "null"]

\* serde_json's Value::to_string, up to a renaming of the texts: an integer
\* prints as its digits, a float with a fraction ("1" and "1.0" differ), a
\* string in quotes.
JsonText(value) ==
  <<IF value.ty \in {"i64", "u64"} THEN "int" ELSE value.ty, value.n, value.s>>

\* insert's deduplication key: the texts of the unique fields (the empty
\* text for a field the record lacks), joined by "-".  The joined string is
\* held as the sequence of its parts.
UniqueKey(record, unique_fields) ==
  [i \in DOMAIN unique_fields |->
     IF unique_fields[i] \in DOMAIN record
       THEN JsonText(record[unique_fields[i]]) ELSE <<>>]

\* The records `seen.into_values().collect()` can yield: for every key the
\* record inserted last, in any order (HashMap iteration order).
Dedup(combined, unique_fields) ==
  LET keep == {i \in DOMAIN combined :
                 \A j \in DOMAIN combined :
                   j > i => UniqueKey(combined[j], unique_fields)
                            # UniqueKey(combined[i], unique_fields)}
  IN {[i \in DOMAIN p |-> combined[p[i]]] : p \in Arrangements(keep)}

-----------------------------------------------------------------------------
(* State of the handles and of the disk *)

DBS == {"d1", "d2"}
TABLES == {"t1"}
Handles == {1, 2}

NoSchema == [json |-> "invalid", rules |-> EmptyFn]

\* what the disk holds
Disk == [meta |-> meta, dbDirs |-> dbDirs, tblDirs |-> tblDirs, files |-> files]

NoDisk == [meta |-> EmptyFn, dbDirs |-> {}, tblDirs |-> {}, files |-> EmptyFn]

\* args of a handle that is between operations
NoArgs ==
  [op |-> "", db |-> "", tbl |-> "", schema |-> NoSchema, pre |-> NoDisk,
   solo |-> TRUE, invalid |-> FALSE]

\* ret of a handle that has not returned since the last call began
NoRet ==
  [op |-> "", db |-> "", tbl |-> "", ok |-> TRUE, err |-> "", names |-> {},
   rows |-> <<>>, schema |-> NoSchema, pre |-> NoDisk, solo |-> TRUE,
   invalid |-> FALSE]

\* struct Table { path, schema }
Table(d, t, schema) == [path |-> <<d, t>>, schema |-> schema]

AllIdle == \A h \in Handles : pc[h] = "idle"

\* a read_metadata that answers from the copy the handle holds
read_metadata_cached(h) == mem[h]

\* DatabaseManager::read_metadata: the document on disk
read_metadata(h) == meta

\* A call begins on an idle handle.  seq: the callers serialise their calls
\* (the call begins only when no handle is inside one).  stay: the call goes on after this step.  solo turns
\* false for every call another call overlaps.
Begin(h, a, seq, stay) ==
  /\ pc[h] = "idle"
  /\ seq => AllIdle
  /\ args' = [g \in Handles |->
               IF g = h THEN (IF stay THEN a ELSE args[h])
               ELSE IF pc[g] = "idle" THEN args[g]
               ELSE [args[g] EXCEPT !.solo = FALSE]]

\* the call op(d, t, schema); pre, solo and invalid are history: what the
\* disk holds as the call begins, whether no other call overlaps it, and (of
\* an insert) whether the batch holds a record the table's schema rejects
Call(op, d, t, schema) ==
  [op |-> op, db |-> d, tbl |-> t, schema |-> schema, pre |-> Disk,
   solo |-> AllIdle, invalid |-> FALSE]

\* the Result a call returns, with the call it answers
Result(a, ok, err, names, rows) ==
  [op |-> a.op, db |-> a.db, tbl |-> a.tbl, ok |-> ok, err |-> err,
   names |-> names, rows |-> rows, schema |-> a.schema, pre |-> a.pre,
   solo |-> a.solo, invalid |-> a.invalid]

\* handle h returns r from the call a: one call's Result is visible at a time
Return(h, a, ok, err, names, rows) ==
  /\ pc' = [pc EXCEPT ![h] = "idle"]
  /\ ret' = [g \in Handles |->
              IF g = h THEN Result(a, ok, err, names, rows) ELSE NoRet]
  /\ UNCHANGED <<vin, vout, process, cloud>>

\* handle h moves on to step p of its call
Goto(h, p) ==
  /\ pc' = [pc EXCEPT ![h] = p]
  /\ ret' = [g \in Handles |-> NoRet]
  /\ UNCHANGED <<vin, vout, process, cloud>>

\* whether a directory call (create_dir, create_dir_all, remove_dir_all)
\* succeeds when its own precondition holds: the file system may refuse
IoOutcomes == BOOLEAN

-----------------------------------------------------------------------------
(* The catalog operations of DatabaseManager, one action per file-system   *)
(* call.  A step that does not end the call leaves args alone; the step    *)
(* that ends it resets args and forgets the in-memory copy, which the next *)
(* operation of the handle reloads before it reads it.                     *)

Done(h) ==
  /\ args' = [args EXCEPT ![h] = NoArgs]
  /\ mem' = [mem EXCEPT ![h] = EmptyFn]

\* create_database: reload the metadata
CreateDatabaseStart(h, d, seq) ==
  /\ Begin(h, Call("create_database", d, "", NoSchema), seq, TRUE)
  /\ mem' = [mem EXCEPT ![h] = read_metadata(h)]
  /\ Goto(h, "cd_mkdir")
  /\ UNCHANGED <<meta, dbDirs, tblDirs, files, today, inserted, dbOwner,
                 tblOwner>>

\* create_database: fs::create_dir, which fails on an existing directory
CreateDatabaseMkdir(h) ==
  /\ pc[h] = "cd_mkdir"
  /\ \E io \in IoOutcomes :
       IF args[h].db \notin dbDirs /\ io
         THEN /\ dbDirs' = dbDirs \cup {args[h].db}
              /\ Goto(h, "cd_save")
              /\ UNCHANGED <<args, mem>>
         ELSE /\ Return(h, args[h], FALSE, "create_dir", {}, <<>>)
              /\ Done(h)
              /\ UNCHANGED dbDirs
  /\ UNCHANGED <<meta, tblDirs, files, today, inserted, dbOwner, tblOwner>>

\* create_database: entry(db).or_insert_with(empty), then save_metadata
CreateDatabaseSave(h) ==
  /\ pc[h] = "cd_save"
  /\ LET d == args[h].db
         m == IF d \in DOMAIN mem[h] THEN mem[h] ELSE With(mem[h], d, EmptyFn)
     IN /\ meta' = m
        /\ dbOwner' = [dbOwner EXCEPT ![d] = h]
  /\ Return(h, args[h], TRUE, "", {}, <<>>)
  /\ Done(h)
  /\ UNCHANGED <<dbDirs, tblDirs, files, today, inserted, tblOwner>>

\* create_table up to its first file-system change: reload, parse the
\* schema, require the database, validate the schema, refuse a known table
CreateTableStart(h, d, t, schema, seq) ==
  /\ LET m == read_metadata(h)
         a == Call("create_table", d, t, schema)
         err == IF schema.json = "invalid" THEN "schema_parse"
                ELSE IF d \notin DOMAIN m THEN "no_database"
                ELSE IF validate_schema_structure(schema) # "ok"
                  THEN validate_schema_structure(schema)
                ELSE IF t \in DOMAIN m[d] THEN "table_exists"
                ELSE "ok"
     IN /\ Begin(h, a, seq, err = "ok")
        /\ IF err = "ok"
             THEN /\ mem' = [mem EXCEPT ![h] = m]
                  /\ Goto(h, "ct_mkdir")
             ELSE /\ UNCHANGED mem
                  /\ Return(h, a, FALSE, err, {}, <<>>)
  /\ UNCHANGED <<meta, dbDirs, tblDirs, files, today, inserted, dbOwner,
                 tblOwner>>

\* a create_table that goes on to save without making the directory
CreateTableMkdirSkipped(h) ==
  /\ pc[h] = "ct_mkdir"
  /\ Goto(h, "ct_save")
  /\ UNCHANGED <<meta, dbDirs, tblDirs, files, today, args, mem, inserted,
                 dbOwner, tblOwner>>

\* create_table: fs::create_dir_all of <data>/<db>/<table>
CreateTableMkdir(h) ==
  /\ pc[h] = "ct_mkdir"
  /\ \E io \in IoOutcomes :
       IF io
         THEN /\ dbDirs' = dbDirs \cup {args[h].db}
              /\ tblDirs' = tblDirs \cup {<<args[h].db, args[h].tbl>>}
              /\ Goto(h, "ct_save")
              /\ UNCHANGED <<args, mem>>
         ELSE /\ Return(h, args[h], FALSE, "create_dir", {}, <<>>)
              /\ Done(h)
              /\ UNCHANGED <<dbDirs, tblDirs>>
  /\ UNCHANGED <<meta, files, today, inserted, dbOwner, tblOwner>>

\* create_table: insert the Table into the in-memory database, save_metadata
CreateTableSave(h) ==
  /\ pc[h] = "ct_save"
  /\ LET d == args[h].db
         t == args[h].tbl
         m == [mem[h] EXCEPT ![d] = With(@, t, Table(d, t, args[h].schema))]
     IN /\ meta' = m
        /\ tblOwner' = [tblOwner EXCEPT ![<<d, t>>] = h]
  /\ Return(h, args[h], TRUE, "", {}, <<>>)
  /\ Done(h)
  /\ UNCHANGED <<dbDirs, tblDirs, files, today, inserted, dbOwner>>

\* list_databases: reload the metadata
ListDatabasesStart(h, seq) ==
  /\ Begin(h, Call("list_databases", "", "", NoSchema), seq, TRUE)
  /\ mem' = [mem EXCEPT ![h] = read_metadata(h)]
  /\ Goto(h, "ld_read")
  /\ UNCHANGED <<meta, dbDirs, tblDirs, files, today, inserted, dbOwner,
                 tblOwner>>

\* list_databases: read and parse the file once more, return its keys
ListDatabasesRead(h) ==
  /\ pc[h] = "ld_read"
  /\ Return(h, args[h], TRUE, "", DOMAIN read_metadata(h), <<>>)
  /\ Done(h)
  /\ UNCHANGED <<meta, dbDirs, tblDirs, files, today, inserted, dbOwner,
                 tblOwner>>

\* list_tables: reload, then the keys of the database in the in-memory copy
ListTables(h, d, seq) ==
  /\ UNCHANGED mem
  /\ LET m == read_metadata(h)
         a == Call("list_tables", d, "", NoSchema)
     IN /\ Begin(h, a, seq, FALSE)
        /\ IF d \in DOMAIN m
             THEN Return(h, a, TRUE, "", DOMAIN m[d], <<>>)
             ELSE Return(h, a, FALSE, "no_database", {}, <<>>)
  /\ UNCHANGED <<meta, dbDirs, tblDirs, files, today, inserted, dbOwner,
                 tblOwner>>

\* a remove_dir_all that leaves the day files behind
FilesKept(f, gone) == f

\* the day files kept when the directories in gone are removed recursively
FilesOutside(f, gone) ==
  [key \in {x \in DOMAIN f : <<x[1], x[2]>> \notin gone} |-> f[key]]

\* delete_database: reload, remove the entry from the in-memory copy
DeleteDatabaseStart(h, d, seq) ==
  /\ LET m == read_metadata(h)
         a == Call("delete_database", d, "", NoSchema)
     IN /\ Begin(h, a, seq, d \in DOMAIN m)
        /\ IF d \in DOMAIN m
             THEN /\ mem' = [mem EXCEPT ![h] = Without(m, d)]
                  /\ Goto(h, "dd_save")
             ELSE /\ UNCHANGED mem
                  /\ Return(h, a, FALSE, "not_in_metadata", {}, <<>>)
  /\ UNCHANGED <<meta, dbDirs, tblDirs, files, today, inserted, dbOwner,
                 tblOwner>>

\* delete_database: save_metadata
DeleteDatabaseSave(h) ==
  /\ pc[h] = "dd_save"
  /\ meta' = mem[h]
  /\ dbOwner' = [dbOwner EXCEPT ![args[h].db] = 0]
  /\ tblOwner' = [x \in DOMAIN tblOwner |->
                    IF x[1] = args[h].db THEN 0 ELSE tblOwner[x]]
  /\ Goto(h, "dd_rmdir")
  /\ UNCHANGED <<dbDirs, tblDirs, files, today, args, mem, inserted>>

\* delete_database: fs::remove_dir_all of <data>/<db>
DeleteDatabaseRmdir(h) ==
  /\ pc[h] = "dd_rmdir"
  /\ \E io \in IoOutcomes :
       IF args[h].db \in dbDirs /\ io
         THEN LET gone == {x \in DBS \X TABLES : x[1] = args[h].db} IN
              /\ dbDirs' = dbDirs \ {args[h].db}
              /\ tblDirs' = tblDirs \ gone
              /\ files' = FilesOutside(files, gone)
              /\ inserted' = FilesOutside(inserted, gone)
              /\ Return(h, args[h], TRUE, "", {}, <<>>)
         ELSE /\ Return(h, args[h], FALSE, "remove_dir", {}, <<>>)
              /\ UNCHANGED <<dbDirs, tblDirs, files, inserted>>
  /\ Done(h)
  /\ UNCHANGED <<meta, today, dbOwner, tblOwner>>

\* delete_table: reload, remove the table from the in-memory database
DeleteTableStart(h, d, t, seq) ==
  /\ LET m == read_metadata(h)
         a == Call("delete_table", d, t, NoSchema)
         found == d \in DOMAIN m /\ t \in DOMAIN m[d]
     IN /\ Begin(h, a, seq, found)
        /\ IF found
             THEN /\ mem' = [mem EXCEPT ![h] = [m EXCEPT ![d] = Without(@, t)]]
                  /\ Goto(h, "dt_save")
             ELSE /\ UNCHANGED mem
                  /\ Return(h, a, FALSE,
                            IF d \in DOMAIN m THEN "no_table" ELSE "no_database",
                            {}, <<>>)
  /\ UNCHANGED <<meta, dbDirs, tblDirs, files, today, inserted, dbOwner,
                 tblOwner>>

\* delete_table: save_metadata
DeleteTableSave(h) ==
  /\ pc[h] = "dt_save"
  /\ meta' = mem[h]
  /\ tblOwner' = [tblOwner EXCEPT ![<<args[h].db, args[h].tbl>>] = 0]
  /\ Goto(h, "dt_rmdir")
  /\ UNCHANGED <<dbDirs, tblDirs, files, today, args, mem, inserted,
                 dbOwner>>

\* a delete_table that puts the document back as the call found it when the
\* directory is not removed
DeleteTableRmdirRestoring(h) ==
  /\ pc[h] = "dt_rmdir"
  /\ \E io \in IoOutcomes :
       LET gone == {<<args[h].db, args[h].tbl>>} IN
       IF gone \subseteq tblDirs /\ io
         THEN /\ tblDirs' = tblDirs \ gone
              /\ files' = FilesOutside(files, gone)
              /\ inserted' = FilesOutside(inserted, gone)
              /\ Return(h, args[h], TRUE, "", {}, <<>>)
              /\ UNCHANGED meta
         ELSE /\ Return(h, args[h], FALSE, "remove_dir", {}, <<>>)
              /\ meta' = args[h].pre.meta
              /\ UNCHANGED <<tblDirs, files, inserted>>
  /\ Done(h)
  /\ UNCHANGED <<dbDirs, today, dbOwner, tblOwner>>

\* delete_table: fs::remove_dir_all of <data>/<db>/<table>
DeleteTableRmdir(h) ==
  /\ pc[h] = "dt_rmdir"
  /\ \E io \in IoOutcomes :
       LET gone == {<<args[h].db, args[h].tbl>>} IN
       IF gone \subseteq tblDirs /\ io
         THEN /\ tblDirs' = tblDirs \ gone
              /\ files' = FilesOutside(files, gone)
              /\ inserted' = FilesOutside(inserted, gone)
              /\ Return(h, args[h], TRUE, "", {}, <<>>)
         ELSE /\ Return(h, args[h], FALSE, "remove_dir", {}, <<>>)
              /\ UNCHANGED <<tblDirs, files, inserted>>
  /\ Done(h)
  /\ UNCHANGED <<meta, dbDirs, today, dbOwner, tblOwner>>

-----------------------------------------------------------------------------
(* The partition writer (DatabaseManager::insert) and the local query      *)

\* the runtime type of a JSON value, as the schema language names it
RuntimeType(value) ==
  CASE value.ty \in {"i64", "u64"} -> "int"
    [] value.ty = "f64" -> "float"
    [] value.ty \in {"string", "bool", "array"} -> value.ty
    [] OTHER -> "unknown"

\* ty is one of the |-separated types of the type string ts of a rule
TypeListed(rule, ty) ==
  /\ rule.hasType /\ rule.typeStr
  /\ \E i \in DOMAIN rule.type :
       /\ rule.type[i] = ty
       /\ i = 1 \/ rule.type[i - 1] = "|"
       /\ i = Len(rule.type) \/ rule.type[i + 1] = "|"

\* the three conditions under which the schema accepts a record
Accepts(schema, record) ==
  /\ DOMAIN record \subseteq DOMAIN schema.rules
  /\ \A f \in DOMAIN schema.rules :
       schema.rules[f].required = "true" => f \in DOMAIN record
  /\ \A f \in DOMAIN record \cap DOMAIN schema.rules :
       TypeListed(schema.rules[f], RuntimeType(record[f]))

\* history: the batch holds a record the schema of table t of d rejects
Rejected(m, d, t, json_values) ==
  /\ d \in DOMAIN m
  /\ t \in DOMAIN m[d]
  /\ \E i \in DOMAIN json_values : ~Accepts(m[d][t].schema, json_values[i])

\* the number of records the successful inserts have stored so far
TotalInserted ==
  Cardinality(UNION {UNION {{<<key, b, i>> : i \in DOMAIN inserted[key][b]} :
                              b \in DOMAIN inserted[key]} :
                       key \in DOMAIN inserted})

\* insert from `File::create` on: the day files and the error ("ok": none)
\* after writing what json_to_arrow made.  RecordBatch::try_new refuses a
\* null in a non-nullable column, after File::create has truncated the file
\* (an empty sequence of rows stands for a file that is no Parquet file).
WriteOutcome(fs, key, arrow) ==
  IF arrow.err # "ok" THEN [files |-> fs, err |-> arrow.err]
  ELSE IF arrow.nulls THEN [files |-> With(fs, key, <<>>), err |-> "record_batch"]
  ELSE [files |-> With(fs, key, arrow.rows), err |-> "ok"]

\* an insert that puts the new records before the prior content of the file
insert_prepending(m, fs, dirs, day, d, t, json_values) ==
  IF ~(d \in DOMAIN m /\ t \in DOMAIN m[d])
    THEN {[files |-> fs, err |-> "no_table"]}
  ELSE
    LET table_schema == m[d][t].schema
        valid == ValidateAll(table_schema, json_values)
        key == <<d, t, day>>
        new == json_to_arrow(json_values)
        unique_fields == get_unique_fields(table_schema)
    IN IF valid # "ok" THEN {[files |-> fs, err |-> valid]}
       ELSE IF new.err # "ok" THEN {[files |-> fs, err |-> new.err]}
       ELSE IF key \in DOMAIN fs THEN
         (IF fs[key] = <<>> THEN {[files |-> fs, err |-> "read_error"]}
          ELSE LET combined == json_values \o fs[key]
                   candidates == IF unique_fields # <<>>
                                   THEN Dedup(combined, unique_fields)
                                   ELSE {combined}
               IN {WriteOutcome(fs, key, json_to_arrow(c)) : c \in candidates})
       ELSE IF <<d, t>> \notin dirs
         THEN {[files |-> fs, err |-> "create_file"]}
       ELSE {WriteOutcome(fs, key, new)}

\* DatabaseManager::insert on the metadata m, the day files fs and the table
\* directories dirs, on the day `day`: every outcome the call can have (one,
\* but for the order in which the deduplicated records are written).
insert(m, fs, dirs, day, d, t, json_values) ==
  IF ~(d \in DOMAIN m /\ t \in DOMAIN m[d])
    THEN {[files |-> fs, err |-> "no_table"]}
  ELSE
    LET table_schema == m[d][t].schema
        valid == ValidateAll(table_schema, json_values)
        key == <<d, t, day>>
        new == json_to_arrow(json_values)
        unique_fields == get_unique_fields(table_schema)
    IN IF valid # "ok" THEN {[files |-> fs, err |-> valid]}
       ELSE IF new.err # "ok" THEN {[files |-> fs, err |-> new.err]}
       ELSE IF key \in DOMAIN fs THEN
         (IF fs[key] = <<>> THEN {[files |-> fs, err |-> "read_error"]}
          ELSE LET combined == fs[key] \o json_values
                   candidates == IF unique_fields # <<>>
                                   THEN Dedup(combined, unique_fields)
                                   ELSE {combined}
               IN {WriteOutcome(fs, key, json_to_arrow(c)) : c \in candidates})
       ELSE IF <<d, t>> \notin dirs
         THEN {[files |-> fs, err |-> "create_file"]}
       ELSE {WriteOutcome(fs, key, new)}

Insert(h, d, t, json_values, seq) ==
  /\ TotalInserted + Len(json_values) <= MaxRecords
  /\ UNCHANGED mem
  /\ LET a == [Call("insert", d, t, NoSchema) EXCEPT
                 !.invalid = Rejected(read_metadata(h), d, t, json_values)]
         key == <<d, t, today>>
     IN /\ Begin(h, a, seq, FALSE)
        /\ \E o \in insert(read_metadata(h), files, tblDirs, today, d, t,
                           json_values) :
             /\ files' = o.files
             /\ Return(h, a, o.err = "ok", IF o.err = "ok" THEN "" ELSE o.err,
                       {}, <<>>)
             /\ inserted' =
                  IF o.err # "ok" THEN inserted
                  ELSE With(inserted, key,
                            Append(IF key \in DOMAIN inserted
                                     THEN inserted[key] ELSE <<>>, json_values))
  /\ UNCHANGED <<meta, dbDirs, tblDirs, today, dbOwner, tblOwner>>

\* the rows of the day files of the days from..to that registered, in order
RECURSIVE UnionAll(_, _, _, _, _)
UnionAll(fs, d, t, from, to) ==
  IF from > to THEN <<>>
  ELSE (IF <<d, t, from>> \in DOMAIN fs THEN fs[<<d, t, from>>] ELSE <<>>)
       \o UnionAll(fs, d, t, from + 1, to)

\* DatabaseManager::query for `SELECT * FROM t` over the days start..end_:
\* the day files that exist and register are united by UNION ALL, which wants
\* as many columns of every arm (arms with the same columns are taken to
\* list them in the same order)
\* a query that answers an empty registration with no rows
query_lenient(fs, d, t, start, end_) ==
  [err |-> "ok", rows |-> UnionAll(fs, d, t, start, end_)]

query(fs, d, t, start, end_) ==
  LET registered == {day \in start..end_ :
                       <<d, t, day>> \in DOMAIN fs /\ fs[<<d, t, day>>] # <<>>}
      rows == UnionAll(fs, d, t, start, end_)
  IN IF registered = {}
       THEN [err |-> "no_valid_tables", rows |-> <<>>]
     ELSE IF \E i, j \in DOMAIN rows : DOMAIN rows[i] # DOMAIN rows[j]
       THEN [err |-> "plan", rows |-> <<>>]
     ELSE [err |-> "ok", rows |-> rows]

Query(h, d, t, start, end_, seq) ==
  /\ LET a == Call("query", d, t, NoSchema)
         r == query(files, d, t, start, end_)
     IN /\ Begin(h, a, seq, FALSE)
        /\ Return(h, a, r.err = "ok", IF r.err = "ok" THEN "" ELSE r.err,
                  start..end_, r.rows)
  /\ UNCHANGED <<meta, dbDirs, tblDirs, files, today, mem, inserted, dbOwner,
                 tblOwner>>

\* midnight UTC passes
Tick ==
  /\ today < NumDays
  /\ today' = today + 1
  /\ UNCHANGED <<meta, dbDirs, tblDirs, files, pc, args, mem, ret,
                 inserted, dbOwner, tblOwner, vin, vout, process,
                 cloud>>

\* validate_data_against_schema applied to the input drawn by ValidateInit
Validate ==
  /\ vout = "none"
  /\ vout' = validate_data_against_schema(vin.schema, vin.record)
  /\ UNCHANGED <<meta, dbDirs, tblDirs, files, today, pc, args, mem, ret,
                 inserted, dbOwner, tblOwner, vin, process, cloud>>

-----------------------------------------------------------------------------
(* generate_paths and the chrono calendar it walks.  A date text            *)
(* "YYYY-MM-DD" is the triple of its three numbers; a NaiveDate is a record *)
(* [y, m, d] of a day that exists.                                           *)

Leap(y) == (y % 4 = 0 /\ y % 100 # 0) \/ y % 400 = 0

DaysIn(y, m) ==
  IF m = 2 THEN (IF Leap(y) THEN 29 ELSE 28)
  ELSE IF m \in {4, 6, 9, 11} THEN 30
  ELSE 31

Date(y, m, d) == [y |-> y, m |-> m, d |-> d]

\* NaiveDate::parse_from_str(text, "%Y-%m-%d"): an Err for a day that does
\* not exist
parse_from_str(text) ==
  IF /\ text[2] \in 1..12
     /\ text[3] \in 1..DaysIn(text[1], text[2])
    THEN [ok |-> TRUE, date |-> Date(text[1], text[2], text[3])]
    ELSE [ok |-> FALSE, date |-> Date(0, 0, 0)]

\* NaiveDate's order: a <= b
DateLE(a, b) ==
  \/ a.y < b.y
  \/ a.y = b.y /\ a.m < b.m
  \/ a.y = b.y /\ a.m = b.m /\ a.d <= b.d

\* a succ_opt that counts thirty days to every month
succ_opt_thirty(date) ==
  IF date.d < 30 THEN Date(date.y, date.m, date.d + 1)
  ELSE IF date.m < 12 THEN Date(date.y, date.m + 1, 1)
  ELSE Date(date.y + 1, 1, 1)

\* NaiveDate::succ_opt: the next day
succ_opt(date) ==
  IF date.d < DaysIn(date.y, date.m) THEN Date(date.y, date.m, date.d + 1)
  ELSE IF date.m < 12 THEN Date(date.y, date.m + 1, 1)
  ELSE Date(date.y + 1, 1, 1)

\* NaiveDate::with_month(month): the same day of that month of the same
\* year, None where the month has no such day
with_month(date, month) ==
  IF date.d <= DaysIn(date.y, month)
    THEN [some |-> TRUE, date |-> Date(date.y, month, date.d)]
    ELSE [some |-> FALSE, date |-> date]

\* the step of the Month loop:
\* with_month(month % 12 + 1).unwrap_or_else(|| from_ymd(year + 1, 1, 1))
NextMonthDate(date) ==
  LET w == with_month(date, (date.m % 12) + 1)
  IN IF w.some THEN w.date ELSE Date(date.y + 1, 1, 1)

\* the two format! arms: the Month path carries "s3://" when is_s3 and the
\* stamp %Y-%m, the Day path never carries the prefix and has the stamp
\* %Y-%m-%d
PathOf(base_dir, file_name, date, granularity, is_s3) ==
  IF granularity = "Month"
    THEN [prefix |-> IF is_s3 THEN "s3://" ELSE "", base |-> base_dir,
          name |-> file_name, stamp |-> <<date.y, date.m>>,
          ext |-> "parquet"]
    ELSE [prefix |-> "", base |-> base_dir, name |-> file_name,
          stamp |-> <<date.y, date.m, date.d>>, ext |-> "parquet"]

\* the input generate_paths is applied to
PathsInput(start, end_, granularity, is_s3) ==
  [base_dir |-> "base", file_name |-> "t1", start_date |-> start,
   end_date |-> end_, granularity |-> granularity, is_s3 |-> is_s3]

\* vout before generate_paths is entered
NoPaths ==
  [at |-> "none", current_date |-> Date(0, 0, 0), end_date |-> Date(0, 0, 0),
   file_list |-> <<>>]

\* generate_paths up to its loop: both dates parsed, `?` on either
GeneratePathsStart ==
  /\ vout.at = "none"
  /\ LET start_date == parse_from_str(vin.start_date)
         end_date == parse_from_str(vin.end_date)
     IN vout' = IF start_date.ok /\ end_date.ok
                  THEN [at |-> "loop", current_date |-> start_date.date,
                        end_date |-> end_date.date, file_list |-> <<>>]
                  ELSE [at |-> "Err", current_date |-> start_date.date,
                        end_date |-> end_date.date, file_list |-> <<>>]
  /\ UNCHANGED <<meta, dbDirs, tblDirs, files, today, pc, args, mem, ret,
                 inserted, dbOwner, tblOwner, vin, process, cloud>>

\* one turn of `while current_date <= end_date`
GeneratePathsLoop ==
  /\ vout.at = "loop"
  /\ DateLE(vout.current_date, vout.end_date)
  /\ Len(vout.file_list) < MaxPaths
  /\ vout' = [vout EXCEPT
               !.file_list = Append(@, PathOf(vin.base_dir, vin.file_name,
                                              vout.current_date,
                                              vin.granularity, vin.is_s3)),
               !.current_date = IF vin.granularity = "Month"
                                  THEN NextMonthDate(@)
                                  ELSE succ_opt(@)]
  /\ UNCHANGED <<meta, dbDirs, tblDirs, files, today, pc, args, mem, ret,
                 inserted, dbOwner, tblOwner, vin, process, cloud>>

\* the loop is left: Ok(file_list)
GeneratePathsReturn ==
  /\ vout.at = "loop"
  /\ ~DateLE(vout.current_date, vout.end_date)
  /\ vout' = [vout EXCEPT !.at = "Ok"]
  /\ UNCHANGED <<meta, dbDirs, tblDirs, files, today, pc, args, mem, ret,
                 inserted, dbOwner, tblOwner, vin, process, cloud>>

-----------------------------------------------------------------------------
(* init_timon and the process-wide handle *)

\* the storage paths init_timon is called with
Paths == {"p1", "p2"}

\* DATABASE_MANAGER before DATABASE_MANAGER.set succeeded
Unset == "unset"

\* a storage path nothing was created under
NoStore == [data |-> FALSE, metadata |-> FALSE]

\* initRet before any init_timon call.  before, pre and store are history:
\* what DATABASE_MANAGER, the metadata document of the bound path and the
\* store of the bound path were as the call began
NoInitRet ==
  [path |-> "", status |-> 0, message |-> "", json_value |-> "None",
   before |-> Unset, pre |-> EmptyFn, store |-> NoStore]

\* a DatabaseManager::new that writes the initial document over any document
NeedsMetadataAlways(s) == TRUE

\* DatabaseManager::new: `!Path::new(&metadata_path).exists()`
NeedsMetadata(s) == ~s.metadata

\* the operations of the bound handle that the specifications follow run on
\* a store whose data directory and metadata document exist (without the
\* document every operation fails as it reloads the metadata)
Serving ==
  /\ manager # Unset
  /\ stores[manager].data
  /\ stores[manager].metadata

\* init_timon(storage_path): DatabaseManager::new(storage_path) first
\* (create_dir_all of <path>/data, the initial document {"databases":{}}
\* written where no document exists; a failure of either is only logged),
\* then DATABASE_MANAGER.set, which succeeds once per process
init_timon(path) ==
  /\ AllIdle
  /\ \E ioDir \in IoOutcomes, ioFile \in IoOutcomes :
       LET s == stores[path]
           written == NeedsMetadata(s) /\ ioFile
           bound == IF manager = Unset THEN path ELSE manager
       IN /\ stores' = [stores EXCEPT ![path] =
                          [data |-> s.data \/ ioDir,
                           metadata |-> s.metadata \/ written]]
          /\ meta' = IF written /\ path = bound THEN EmptyFn ELSE meta
          /\ manager' = bound
          /\ initRet' =
               [path |-> path,
                status |-> IF manager = Unset THEN 200 ELSE 400,
                message |-> IF manager = Unset
                              THEN "DatabaseManager initialized successfully"
                              ELSE "DatabaseManager already initialized",
                json_value |-> "None",
                before |-> manager,
                pre |-> meta,
                store |-> IF manager = Unset THEN NoStore ELSE stores[manager]]
  /\ UNCHANGED <<dbDirs, tblDirs, files, today, pc, args, mem, ret, inserted,
                 dbOwner, tblOwner, vin, vout, cloud_manager, panics, cloud>>

-----------------------------------------------------------------------------
(* sink_monthly_parquet of CloudStorageManager.  The day numbers count from *)
(* 2024-01-30: days 1 and 2 are the last days of January, day 3 is the      *)
(* first of February.  A call is followed month group by month group, each  *)
(* group in one step; the clock stands still while a call runs.             *)

FirstDay == Date(2024, 1, 30)

\* the date of day number n: Utc::now() on that day
RECURSIVE DayDate(_)
DayDate(n) == IF n = 1 THEN FirstDay ELSE succ_opt(DayDate(n - 1))

\* the YYYY-MM that the regex (\d{4}-\d{2}) finds in the path of the day
\* file of day number `day` (the directories hold no such text); also
\* Utc::now().format("%Y-%m") on that day
extract_year_month(day) == <<DayDate(day).y, DayDate(day).m>>

\* the order of the texts "YYYY-MM": path_year_month < current_year_month
MonthLT(a, b) == a[1] < b[1] \/ (a[1] = b[1] /\ a[2] < b[2])

\* sink between calls, before any call
NoSink ==
  [at |-> "idle", db |-> "", tbl |-> "", groups |-> EmptyFn, todo |-> {},
   log |-> <<>>, err |-> "", again |-> FALSE,
   prior |-> "none",
   pre |-> [files |-> EmptyFn, bucket |-> EmptyFn],
   post |-> [files |-> EmptyFn]]

\* whether the call at `at` has ended
Ended(at) == at \in {"Ok", "Err", "panic"}

\* how the call s went, for the call that follows it: "io" when an upload
\* or a removal failed, else "Ok" or the error of the call
Outcome(s) ==
  IF \E i \in DOMAIN s.log : "failed" \in {s.log[i].upload, s.log[i].evict}
    THEN "io"
  ELSE IF s.at = "Err" THEN s.err
  ELSE s.at

\* the entry of sink.log for a month group: what became of its upload
\* ("done", "failed", or "none" when the group did not get there) and of
\* its eviction ("done", "failed", or "none" when nothing was to evict or
\* the group did not get there)
LogEntry(month, upload, evict) ==
  [month |-> month, upload |-> upload, evict |-> evict]

\* files_by_month: the day files of the table directory, by the YYYY-MM of
\* their names (the monthly aggregates in the directory do not match the
\* regex (\d{4}-\d{2})-\d{2}\.parquet$)
files_by_month(fs, d, t) ==
  LET days == {key[3] : key \in {x \in DOMAIN fs : x[1] = d /\ x[2] = t}}
      months == {extract_year_month(day) : day \in days}
  IN [month \in months |-> {day \in days : extract_year_month(day) = month}]

\* sink_monthly_parquet up to its loop over the month groups:
\* get_table_path(..).unwrap(), fs::read_dir(..)?, the grouping
SinkStart(d, t) ==
  /\ AllIdle
  /\ sink.at = "idle" \/ Ended(sink.at)
  /\ LET again == /\ sink.at \in {"Ok", "Err"}
                  /\ sink.db = d /\ sink.tbl = t
                  /\ files = sink.post.files
         call == [NoSink EXCEPT !.db = d, !.tbl = t, !.again = again,
                                !.prior = Outcome(sink),
                                !.pre = [files |-> files, bucket |-> bucket]]
         groups == files_by_month(files, d, t)
     IN sink' =
          IF ~(d \in DOMAIN meta /\ t \in DOMAIN meta[d])
            THEN [call EXCEPT !.at = "panic", !.post = [files |-> files]]
          ELSE IF <<d, t>> \notin tblDirs
            THEN [call EXCEPT !.at = "Err", !.err = "read_dir",
                              !.post = [files |-> files]]
          ELSE [call EXCEPT !.at = "groups", !.groups = groups,
                            !.todo = DOMAIN groups]
  /\ UNCHANGED <<meta, dbDirs, tblDirs, files, today, pc, args, mem, ret,
                 inserted, dbOwner, tblOwner, vin, vout, process, bucket,
                 monthly>>

\* an eviction that carries on, whatever fs::remove_file returned
remove_file_ignored(removed, days, merged_removed) == ""

\* the `?` on the fs::remove_file calls of the eviction: an error unless
\* every day file of the group and the monthly aggregate were removed
remove_file(removed, days, merged_removed) ==
  IF removed = days /\ merged_removed THEN "" ELSE "remove_file"

\* what the eviction loop of a group can leave behind: the day files removed
\* before the first fs::remove_file that fails (any of them can be first in
\* the directory listing), and whether the monthly aggregate, which goes
\* right after the first day file, was removed
EvictOutcomes(days) ==
  {[removed |-> removed, merged_removed |-> merged_removed] :
     removed \in SUBSET days, merged_removed \in BOOLEAN}
   \ {o \in [removed : SUBSET days, merged_removed : BOOLEAN] :
        \/ o.removed = {} /\ o.merged_removed
        \/ Cardinality(o.removed) > 1 /\ ~o.merged_removed}

\* no eviction: the month of the group is not before the current month
NoEviction == [removed |-> {}, merged_removed |-> FALSE]

\* One month group of the loop, the HashMap handing out the groups in any
\* order: the monthly aggregate is a copy of the single day file or the
\* UNION ALL of the day files that open as Parquet (none: the group is
\* skipped; arms of different columns: the `?` returns the planner's error),
\* the upload, whose failure is only logged, and the eviction.
SinkGroup ==
  /\ sink.at = "groups"
  /\ \E month \in sink.todo :
       LET d == sink.db
           t == sink.tbl
           days == sink.groups[month]
           first == CHOOSE x \in days : \A y \in days : x <= y
           last == CHOOSE x \in days : \A y \in days : y <= x
           valid == {day \in days : files[<<d, t, day>>] # <<>>}
           merged == IF Cardinality(days) = 1 THEN files[<<d, t, first>>]
                     ELSE UnionAll(files, d, t, first, last)
           old == MonthLT(month, extract_year_month(today))
           rest == sink.todo \ {month}
       IN IF Cardinality(days) > 1 /\ valid = {}
            THEN /\ sink' = [sink EXCEPT
                               !.todo = rest,
                               !.log = Append(@, LogEntry(month, "none", "none"))]
                 /\ UNCHANGED <<files, bucket, monthly>>
          ELSE IF /\ Cardinality(days) > 1
                  /\ \E i, j \in DOMAIN merged : DOMAIN merged[i] # DOMAIN merged[j]
            THEN /\ sink' = [sink EXCEPT
                               !.at = "Err", !.err = "plan",
                               !.log = Append(@, LogEntry(month, "none", "none")),
                               !.post = [files |-> files]]
                 /\ UNCHANGED <<files, bucket, monthly>>
          ELSE \E uploaded \in IoOutcomes,
                  o \in (IF old THEN EvictOutcomes(days) ELSE {NoEviction}) :
                 LET err == IF old
                              THEN remove_file(o.removed, days, o.merged_removed)
                              ELSE ""
                     left == [key \in DOMAIN files \
                                      {<<d, t, day>> : day \in o.removed} |->
                                files[key]]
                 IN /\ bucket' = IF uploaded
                                   THEN With(bucket, <<t, month>>, merged)
                                   ELSE bucket
                    /\ monthly' = IF o.merged_removed
                                    THEN Without(monthly, <<d, t, month>>)
                                    ELSE With(monthly, <<d, t, month>>, merged)
                    /\ files' = left
                    /\ sink' = [sink EXCEPT
                         !.at = IF err = "" THEN "groups" ELSE "Err",
                         !.err = err,
                         !.todo = rest,
                         !.log = Append(@, LogEntry(month,
                                   IF uploaded THEN "done" ELSE "failed",
                                   IF ~old THEN "none"
                                   ELSE IF o.removed = days /\ o.merged_removed
                                     THEN "done"
                                   ELSE "failed")),
                         !.post = [files |-> IF err = "" THEN @.files ELSE left]]
  /\ UNCHANGED <<meta, dbDirs, tblDirs, today, pc, args, mem, ret,
                 inserted, dbOwner, tblOwner, vin, vout, process>>

\* the loop is over: Ok(())
SinkReturn ==
  /\ sink.at = "groups"
  /\ sink.todo = {}
  /\ sink' = [sink EXCEPT !.at = "Ok", !.post = [files |-> files]]
  /\ UNCHANGED <<meta, dbDirs, tblDirs, files, today, pc, args, mem, ret,
                 inserted, dbOwner, tblOwner, vin, vout, process, bucket,
                 monthly>>

\* midnight UTC passes, between two calls of the sink
SinkTick ==
  /\ today < SinkDays
  /\ sink.at # "groups"
  /\ today' = today + 1
  /\ UNCHANGED <<meta, dbDirs, tblDirs, files, pc, args, mem, ret,
                 inserted, dbOwner, tblOwner, vin, vout, process, cloud>>

-----------------------------------------------------------------------------
(* The public operations of timon_engine: each hands the Result of the      *)
(* operation under it back as a TimonResult.                                *)

\* struct TimonResult { status, message, json_value }; json_value is
\* [some |-> FALSE] for None
TimonResult(status, message, json_value) ==
  [status |-> status, message |-> message, json_value |-> json_value]

None == [some |-> FALSE]

\* a call that unwound in a panic: no TimonResult is returned
Unwound == TimonResult(0, "panic", None)

\* create_database .. query of mod.rs on the Result r of the DatabaseManager
\* operation: Ok is status 200 with the message of the operation (and the
\* list or the rows as json_value), Err(err) is status 400 with
\* err.to_string() and no json_value
Envelope(r) ==
  IF r.ok
    THEN TimonResult(200, <<"success", r.op, r.db, r.tbl>>,
           IF r.op \in {"list_databases", "list_tables"}
             THEN [some |-> TRUE, value |-> r.names]
           ELSE IF r.op = "query" THEN [some |-> TRUE, value |-> r.rows]
           ELSE None)
    ELSE TimonResult(400, r.err, None)

\* sink_monthly_parquet of mod.rs on the call s of the CloudStorageManager
\* (the unwrap of get_table_path unwinds through it)
SinkEnvelope(s) ==
  IF s.at = "Ok"
    THEN TimonResult(200, <<"success", "sink_monthly_parquet", s.db, s.tbl>>,
                     None)
  ELSE IF s.at = "Err" THEN TimonResult(400, s.err, None)
  ELSE Unwound

-----------------------------------------------------------------------------
(* The rewriting of the user's SQL in DatabaseManager::query.  An SQL text  *)
(* is the sequence of its units: a unit is a character, or a keyword, which *)
(* is a run of word characters no other unit is a part of.                  *)

\* the units the regex class \w matches
WordUnits == {"t", "1", "k", "x", "SELECT", "FROM", "JOIN", "WHERE",
              "combined_table"}

\* the quote characters the regex lets go before and after the name, each a
\* unit: the backtick and the double quote
QuoteUnits == {"backtick", "dquote"}

\* the longest run of word units that text begins with: (\w+), greedy
RECURSIVE WordRun(_)
WordRun(text) ==
  IF text # <<>> /\ Head(text) \in WordUnits
    THEN <<Head(text)>> \o WordRun(Tail(text))
    ELSE <<>>

\* text without the whitespace it begins with: \s+ after one space matched
RECURSIVE SkipSpaces(_)
SkipSpaces(text) ==
  IF text # <<>> /\ Head(text) = " " THEN SkipSpaces(Tail(text)) ELSE text

\* the capture of the regex (?:FROM|JOIN)\s+ quote? (\w+) quote? matched at
\* the head of text (the empty sequence: no match there)
MatchHere(text) ==
  IF Len(text) >= 2 /\ text[1] \in {"FROM", "JOIN"} /\ text[2] = " "
    THEN LET rest == SkipSpaces(Tail(text))
         IN IF rest # <<>> /\ Head(rest) \in QuoteUnits
                 /\ WordRun(Tail(rest)) # <<>>
              THEN WordRun(Tail(rest))
              ELSE WordRun(rest)
    ELSE <<>>

\* helpers.rs extract_table_name: the capture of the leftmost match, the
\* empty string when nothing matches
RECURSIVE extract_table_name(_)
extract_table_name(sql_query) ==
  IF sql_query = <<>> THEN <<>>
  ELSE IF MatchHere(sql_query) # <<>> THEN MatchHere(sql_query)
  ELSE extract_table_name(Tail(sql_query))

\* str::replace(from, to) for a non-empty from: every occurrence of from,
\* found from the left and not overlapping, is replaced by to
RECURSIVE replace(_, _, _)
replace(text, from, to) ==
  IF Len(text) < Len(from) THEN text
  ELSE IF SubSeq(text, 1, Len(from)) = from
    THEN to \o replace(SubSeq(text, Len(from) + 1, Len(text)), from, to)
  ELSE <<Head(text)>> \o replace(Tail(text), from, to)

\* vout before the rewriting
NoRewrite == [at |-> "none", file_name |-> <<>>, adjusted_sql_query |-> <<>>]

\* query from extract_table_name to the rewriting, for a table whose day
\* files registered (the name extracted is not empty):
\* sql_query.replace(file_name, "combined_table")
AdjustQuery ==
  /\ vout.at = "none"
  /\ LET file_name == extract_table_name(vin.sql_query)
     IN vout' = [at |-> "adjusted", file_name |-> file_name,
                 adjusted_sql_query |->
                   replace(vin.sql_query, file_name, <<"combined_table">>)]
  /\ UNCHANGED <<meta, dbDirs, tblDirs, files, today, pc, args, mem, ret,
                 inserted, dbOwner, tblOwner, vin, process, cloud>>

-----------------------------------------------------------------------------
(* The entry of the public operations: the process-wide handles they fetch  *)
(* and the panics that unwind through them.                                 *)

\* the process is alive, no panic having ended it, and no call is in flight
\* (the callers make their calls one after another)
Quiet ==
  /\ AllIdle
  /\ sink.at \notin {"groups", "panic"}
  /\ panics = {}

\* the public operation op unwinds in a panic raised at `cause`: nothing is
\* returned, and nothing the call had not yet done is done
Panic(op, cause) ==
  /\ Quiet
  /\ panics' = panics \cup {<<op, cause>>}
  /\ UNCHANGED <<meta, dbDirs, tblDirs, files, today, pc, args, mem, ret,
                 inserted, dbOwner, tblOwner, vin, vout, manager, stores,
                 initRet, cloud_manager, cloud>>

\* the text "YYYY-MM-DD" of a date; <<0, 0, 0>> stands for a text that is
\* not of this form, which parse_from_str refuses like a day that does not
\* exist
DateText(date) == <<date.y, date.m, date.d>>

NotADate == <<0, 0, 0>>

\* the day number of a date that is the date of one
DayIndex(date) == CHOOSE n \in 1..NumDays : DayDate(n) = date

\* init_bucket: CloudStorageManager::new(get_database_manager().clone(), ..)
\* and CLOUD_STORAGE_MANAGER.set, which succeeds once per process
init_bucket ==
  IF manager = Unset
    THEN Panic("init_bucket", "get_database_manager")
    ELSE /\ Quiet
         /\ cloud_manager' = TRUE
         /\ UNCHANGED <<meta, dbDirs, tblDirs, files, today, pc, args, mem,
                        ret, inserted, dbOwner, tblOwner, vin, vout, manager,
                        stores, initRet, panics, cloud>>

\* list_tables of mod.rs: get_database_manager(), then the operation
timon_list_tables(d) ==
  IF manager = Unset
    THEN Panic("list_tables", "get_database_manager")
    ELSE Serving /\ Quiet /\ ListTables(1, d, TRUE)

\* query of mod.rs: get_database_manager(), then DatabaseManager::query,
\* whose generate_paths(..).unwrap() meets date_range.get(..).unwrap() and
\* the `?` on each parse_from_str, the start date first
timon_query(d, t, date_range) ==
  IF manager = Unset
    THEN Panic("query", "get_database_manager")
  ELSE IF "start_date" \notin DOMAIN date_range
    THEN Panic("query", "date_range.get")
  ELSE IF ~parse_from_str(date_range["start_date"]).ok
    THEN Panic("query", "generate_paths")
  ELSE IF "end_date" \notin DOMAIN date_range
    THEN Panic("query", "date_range.get")
  ELSE IF ~parse_from_str(date_range["end_date"]).ok
    THEN Panic("query", "generate_paths")
  ELSE /\ Quiet
       /\ Query(1, d, t,
                DayIndex(parse_from_str(date_range["start_date"]).date),
                DayIndex(parse_from_str(date_range["end_date"]).date), TRUE)

\* sink_monthly_parquet of mod.rs: get_cloud_storage_manager(), then the
\* operation, whose get_table_path begins with read_metadata().unwrap()
timon_sink_monthly_parquet(d, t) ==
  IF ~cloud_manager
    THEN Panic("sink_monthly_parquet", "get_cloud_storage_manager")
  ELSE IF ~stores[manager].metadata
    THEN Panic("sink_monthly_parquet", "read_metadata")
  ELSE Quiet /\ SinkStart(d, t)

-----------------------------------------------------------------------------
(* The inputs the specifications draw from *)

Rules2(k, v) == [f \in {"k", "v"} |-> IF f = "k" THEN k ELSE v]

\* {"k": {"type": "int|float"}, "v": {"type": "int", "required": false}}
PlainSchema ==
  SchemaObj(Rules2(Rule(<<"int", "|", "float">>, "absent", "absent"),
                   Rule(<<"int">>, "false", "absent")))

\* {"k": {"type": "int|float", "required": true, "unique": true},
\*  "v": {"type": "int", "unique": false}}
UniqueSchema ==
  SchemaObj(Rules2(Rule(<<"int", "|", "float">>, "true", "true"),
                   Rule(<<"int">>, "absent", "false")))

\* {"k": {"required": true}}: a rule without "type"
NoTypeSchema ==
  SchemaObj([f \in {"k"} |->
    [Rule(<<>>, "true", "absent") EXCEPT !.hasType = FALSE, !.typeStr = FALSE]])

\* {"k": {"type": "string", "required": "yes"}}
BadRequiredSchema ==
  SchemaObj([f \in {"k"} |-> Rule(<<"string">>, "other", "absent")])

\* {"k": "string"}: a rule that is no object
BadRuleSchema ==
  SchemaObj([f \in {"k"} |-> [Rule(<<>>, "absent", "absent") EXCEPT
                                !.obj = FALSE, !.hasType = FALSE,
                                !.typeStr = FALSE]])

\* ["k"]: JSON, but no object
NonObjectSchema == [json |-> "nonobject", rules |-> EmptyFn]

\* the schema texts handed to create_table by the catalog specifications
CatalogSchemas ==
  {PlainSchema, NoTypeSchema, BadRequiredSchema,
   BadRuleSchema, NonObjectSchema, NoSchema}

\* the schemas of the tables the insert specification writes to
InsertSchemas == {PlainSchema, UniqueSchema}

\* the records of the batches: {"k":1,"v":1}, {"k":1,"v":2}, {"k":2.5,"v":1}
\* and {"v":1}
InsertRecords ==
  {Rules2(IntV(1), IntV(1)), Rules2(IntV(1), IntV(2)),
   Rules2(FloatV(25), IntV(1)), [f \in {"v"} |-> IntV(1)]}

InsertBatches == SeqsUpTo(InsertRecords, MaxBatchLen)

\* the batch the catalog specifications insert
CatalogBatch == <<Rules2(IntV(1), IntV(1))>>

\* ValidateSpec: the type strings, rules, schemas and records it draws
TypeStrings ==
  {<<"int">>, <<"string">>, <<"int", "|", "float">>, <<"bool", "|", "array">>,
   <<"unknown">>, <<"int", "float">>, <<>>}

ValidateValues ==
  {IntV(1), FloatV(25), StrV("a"), KindV("bool"), ArrV("i64"), KindV("null"),
   KindV("object"), [IntV(1) EXCEPT !.ty = "u64"]}

ValidateRules ==
  {Rule(ts, rq, "absent") : ts \in TypeStrings, rq \in {"absent", "true", "false"}}
    \cup {[Rule(<<>>, "true", "absent") EXCEPT !.typeStr = FALSE]}

ValidateSchemas ==
  {SchemaObj(r) : r \in UNION {[D -> ValidateRules] : D \in {{"k"}, {"k", "v"}}}}

ValidateRecords ==
  UNION {[D -> ValidateValues] : D \in {{}, {"k"}, {"v"}, {"k", "z"}}}
    \cup {Rules2(x, IntV(1)) : x \in ValidateValues}

NoInput == [schema |-> NoSchema, record |-> EmptyFn]

-----------------------------------------------------------------------------
(* The specifications *)

InitDisk ==
  /\ meta = EmptyFn
  /\ dbDirs = {}
  /\ tblDirs = {}
  /\ files = EmptyFn
  /\ today = 1
  /\ pc = [h \in Handles |-> "idle"]
  /\ args = [h \in Handles |-> NoArgs]
  /\ mem = [h \in Handles |-> EmptyFn]
  /\ ret = [h \in Handles |-> NoRet]
  /\ inserted = EmptyFn
  /\ dbOwner = [d \in DBS |-> 0]
  /\ tblOwner = [x \in DBS \X TABLES |-> 0]
  /\ bucket = EmptyFn
  /\ monthly = EmptyFn
  /\ sink = NoSink

\* the process after init_timon("p1") on a fresh path and init_bucket
InitProcess ==
  /\ manager = "p1"
  /\ stores = [p \in Paths |-> IF p = "p1"
                                 THEN [data |-> TRUE, metadata |-> TRUE]
                                 ELSE NoStore]
  /\ initRet = NoInitRet
  /\ cloud_manager = TRUE
  /\ panics = {}

Init ==
  /\ InitDisk
  /\ InitProcess
  /\ vin = NoInput
  /\ vout = "none"

\* the steps that carry on a call in flight
Steps(h) ==
  \/ CreateDatabaseMkdir(h)
  \/ CreateDatabaseSave(h)
  \/ CreateTableMkdir(h)
  \/ CreateTableSave(h)
  \/ ListDatabasesRead(h)
  \/ DeleteDatabaseSave(h)
  \/ DeleteDatabaseRmdir(h)
  \/ DeleteTableSave(h)
  \/ DeleteTableRmdir(h)

\* the catalog operations and one insert, each call run to completion before
\* the next begins, through either handle
Next ==
  \E h \in Handles :
    \/ \E d \in DBS : CreateDatabaseStart(h, d, TRUE)
    \/ \E d \in DBS, t \in TABLES, schema \in CatalogSchemas :
         CreateTableStart(h, d, t, schema, TRUE)
    \/ ListDatabasesStart(h, TRUE)
    \/ \E d \in DBS : ListTables(h, d, TRUE)
    \/ \E d \in DBS : DeleteDatabaseStart(h, d, TRUE)
    \/ \E d \in DBS, t \in TABLES : DeleteTableStart(h, d, t, TRUE)
    \/ \E d \in DBS, t \in TABLES : Insert(h, d, t, CatalogBatch, TRUE)
    \/ Steps(h)

Spec == Init /\ [][Next]_vars

\* the databases the interleaved handles work on
ConcDBS == {"d1"}

\* the catalog operations of two handles on one data directory, interleaved
\* step by step
ConcNext ==
  \E h \in Handles :
    \/ \E d \in ConcDBS : CreateDatabaseStart(h, d, FALSE)
    \/ \E d \in ConcDBS, t \in TABLES :
         CreateTableStart(h, d, t, PlainSchema, FALSE)
    \/ ListDatabasesStart(h, FALSE)
    \/ \E d \in ConcDBS : ListTables(h, d, FALSE)
    \/ \E d \in ConcDBS : DeleteDatabaseStart(h, d, FALSE)
    \/ \E d \in ConcDBS, t \in TABLES : DeleteTableStart(h, d, t, FALSE)
    \/ Steps(h)

ConcSpec == Init /\ [][ConcNext]_vars

\* two catalog writers on one data directory, each creating databases and
\* tables, their steps interleaved (no call deletes)
RaceNext ==
  \E h \in Handles :
    \/ \E d \in DBS : CreateDatabaseStart(h, d, FALSE)
    \/ CreateDatabaseMkdir(h)
    \/ CreateDatabaseSave(h)
    \/ \E d \in DBS, t \in TABLES : CreateTableStart(h, d, t, PlainSchema, FALSE)
    \/ CreateTableMkdir(h)
    \/ CreateTableSave(h)

RaceSpec == Init /\ [][RaceNext]_vars

\* the steps of create_database and create_table through handle 1 that make
\* the table d1.t1, with one of the schemas
MakeTable(schemas) ==
  \/ CreateDatabaseStart(1, "d1", TRUE)
  \/ CreateDatabaseMkdir(1)
  \/ CreateDatabaseSave(1)
  \/ \E schema \in schemas : CreateTableStart(1, "d1", "t1", schema, TRUE)
  \/ CreateTableMkdir(1)
  \/ CreateTableSave(1)

\* one handle, one table of one database: inserts as the days pass
InsertNext ==
  \/ MakeTable(InsertSchemas)
  \/ \E json_values \in InsertBatches : Insert(1, "d1", "t1", json_values, TRUE)
  \/ Tick

InsertSpec == Init /\ [][InsertNext]_vars

\* {"k": {"type": "int|string", "required": true, "unique": true},
\*  "v": {"type": "int"}}
MixedKeySchema ==
  SchemaObj(Rules2(Rule(<<"int", "|", "string">>, "true", "true"),
                   Rule(<<"int">>, "absent", "absent")))

\* the schemas of the tables with a unique key
KeySchemas == {UniqueSchema, MixedKeySchema}

\* the records of their batches: {"k":1,"v":1}, {"k":1,"v":2},
\* {"k":2.5,"v":1} and {"k":"a","v":1}
KeyRecords ==
  {Rules2(IntV(1), IntV(1)), Rules2(IntV(1), IntV(2)),
   Rules2(FloatV(25), IntV(1)), Rules2(StrV("a"), IntV(1))}

KeyBatches == SeqsUpTo(KeyRecords, MaxBatchLen)

\* one handle, one table with a unique key: inserts as the days pass
KeyNext ==
  \/ MakeTable(KeySchemas)
  \/ \E json_values \in KeyBatches : Insert(1, "d1", "t1", json_values, TRUE)
  \/ Tick

KeySpec == Init /\ [][KeyNext]_vars

\* one handle, one table without unique fields: inserts and queries over
\* every range of days, as the days pass
QueryNext ==
  \/ MakeTable({PlainSchema})
  \/ \E json_values \in InsertBatches : Insert(1, "d1", "t1", json_values, TRUE)
  \/ \E start \in 1..NumDays, end_ \in 1..NumDays :
       Query(1, "d1", "t1", start, end_, TRUE)
  \/ Tick

QuerySpec == Init /\ [][QueryNext]_vars

ValidateInit ==
  /\ InitDisk
  /\ InitProcess
  /\ vin \in [schema : ValidateSchemas, record : ValidateRecords]
  /\ vout = "none"

ValidateNext == Validate

ValidateSpec == ValidateInit /\ [][ValidateNext]_vars

\* the date texts generate_paths is given: the first, the middle and the last
\* days of the months around the turn of two years and around February, and
\* texts of days that do not exist
PlanYears == {2023, 2024}
PlanMonths == {1, 2, 3, 11, 12}
PlanDays == {1, 2, 15, 29, 30, 31}

PlanTexts ==
  {<<y, m, d>> : y \in PlanYears, m \in PlanMonths, d \in PlanDays}

PathsInit ==
  /\ InitDisk
  /\ InitProcess
  /\ vin \in {PathsInput(start, end_, granularity, is_s3) :
               start \in PlanTexts, end_ \in PlanTexts,
               granularity \in {"Day", "Month"}, is_s3 \in BOOLEAN}
  /\ vout = NoPaths

PathsNext ==
  \/ GeneratePathsStart
  \/ GeneratePathsLoop
  \/ GeneratePathsReturn

PathsSpec == PathsInit /\ [][PathsNext]_vars

\* a turn of `while current_date <= end_date` when file_list already holds
\* MaxPaths paths: the path pushed is no longer recorded, current_date moves
\* on as the code moves it
GeneratePathsBeyond ==
  /\ vout.at = "loop"
  /\ DateLE(vout.current_date, vout.end_date)
  /\ Len(vout.file_list) = MaxPaths
  /\ vout' = [vout EXCEPT
               !.current_date = IF vin.granularity = "Month"
                                  THEN NextMonthDate(@)
                                  ELSE succ_opt(@)]
  /\ UNCHANGED <<meta, dbDirs, tblDirs, files, today, pc, args, mem, ret,
                 inserted, dbOwner, tblOwner, vin, process, cloud>>

\* generate_paths called with Granularity::Month, as query_bucket calls it
MonthPathsInit ==
  /\ InitDisk
  /\ InitProcess
  /\ vin \in {PathsInput(start, end_, "Month", is_s3) :
               start \in PlanTexts, end_ \in PlanTexts, is_s3 \in BOOLEAN}
  /\ vout = NoPaths

PathsLiveNext ==
  \/ GeneratePathsStart
  \/ GeneratePathsLoop
  \/ GeneratePathsBeyond
  \/ GeneratePathsReturn

\* generate_paths runs on its caller's thread and nothing suspends it: a
\* step of it that can be taken is taken
PathsLiveSpec ==
  MonthPathsInit /\ [][PathsLiveNext]_vars /\ WF_vars(PathsLiveNext)

\* {"k": {"type": "int", "required": true}, "v": {"type": "array",
\* "required": false}}
SinkSchema ==
  SchemaObj(Rules2(Rule(<<"int">>, "true", "absent"),
                   Rule(<<"array">>, "false", "absent")))

\* the batches of the sink specification: [{"k":1}], [{"k":1,"v":[1]}] and
\* [{"k":1,"v":[1]},{"k":2}], whose second record leaves a null in the list
\* column
SinkBatches ==
  {<<[f \in {"k"} |-> IntV(1)]>>,
   <<Rules2(IntV(1), ArrV("i64"))>>,
   <<Rules2(IntV(1), ArrV("i64")), [f \in {"k"} |-> IntV(2)]>>}

\* one table, inserts as the days pass from January into February, then a
\* sink_monthly_parquet call and a second one in a row, the days passing
SinkNext ==
  \/ sink.at = "idle" /\ MakeTable({SinkSchema})
  \/ \E json_values \in SinkBatches :
       sink.at = "idle" /\ Insert(1, "d1", "t1", json_values, TRUE)
  \/ ~sink.again /\ SinkStart("d1", "t1")
  \/ SinkGroup
  \/ SinkReturn
  \/ SinkTick

SinkSpec == Init /\ [][SinkNext]_vars

\* a process before its first init_timon, on fresh storage paths
StartInit ==
  /\ InitDisk
  /\ manager = Unset
  /\ stores = [p \in Paths |-> NoStore]
  /\ initRet = NoInitRet
  /\ cloud_manager = FALSE
  /\ panics = {}
  /\ vin = NoInput
  /\ vout = "none"

\* init_timon calls on either path, and between them the bound handle making,
\* filling and deleting the table d1.t1
StartNext ==
  \/ \E path \in Paths : init_timon(path)
  \/ Serving /\ MakeTable({PlainSchema})
  \/ Serving /\ Insert(1, "d1", "t1", CatalogBatch, TRUE)
  \/ Serving /\ DeleteTableStart(1, "d1", "t1", TRUE)
  \/ Serving /\ DeleteTableSave(1)
  \/ Serving /\ DeleteTableRmdir(1)

StartSpec == StartInit /\ [][StartNext]_vars

\* The SQL texts the rewriting is applied to:
\*   SELECT <select> FROM <table> [WHERE <column> = <value>]
\* with the table name bare or in backticks.  The names and the values are
\* sequences of units: the tables t1 and t, the columns *, k, t1, t1k and kt,
\* the values 't1' , 'k' and 1.
SqlTables == {<<"t", "1">>, <<"t">>}

SqlColumns == {<<"*">>, <<"k">>, <<"t", "1">>, <<"t", "1", "k">>, <<"k", "t">>}

SqlValues == {<<"'", "t", "1", "'">>, <<"'", "k", "'">>, <<"1">>}

SqlWheres ==
  {<<>>} \cup {column \o <<" ", "=", " ">> \o value :
                 column \in {<<"k">>, <<"t", "1">>}, value \in SqlValues}

SqlParts ==
  [select : SqlColumns, table : SqlTables, quoted : BOOLEAN, where : SqlWheres]

\* the text of the query of the parts q
SqlText(q) ==
  <<"SELECT", " ">> \o q.select \o <<" ", "FROM", " ">>
    \o (IF q.quoted THEN <<"backtick">> \o q.table \o <<"backtick">> ELSE q.table)
    \o (IF q.where = <<>> THEN <<>> ELSE <<" ", "WHERE", " ">> \o q.where)

RewriteInit ==
  /\ InitDisk
  /\ InitProcess
  /\ vin \in {[sql_query |-> SqlText(q), parts |-> q] : q \in SqlParts}
  /\ vout = NoRewrite

RewriteNext == AdjustQuery

RewriteSpec == RewriteInit /\ [][RewriteNext]_vars

\* the steps of create_database and create_table through handle 1 that make
\* the table t1 in every database, with the schema
MakeTables(schema) ==
  \/ \E d \in DBS : CreateDatabaseStart(1, d, TRUE)
  \/ CreateDatabaseMkdir(1)
  \/ CreateDatabaseSave(1)
  \/ \E d \in DBS : CreateTableStart(1, d, "t1", schema, TRUE)
  \/ CreateTableMkdir(1)
  \/ CreateTableSave(1)

\* the batches of the specification of two databases: [{"k":1,"v":1}] and
\* [{"k":1,"v":2}]
ShareBatches == {<<Rules2(IntV(1), IntV(1))>>, <<Rules2(IntV(1), IntV(2))>>}

\* two databases with a table t1 each: inserts on one day, then
\* sink_monthly_parquet calls on either table
ShareNext ==
  \/ sink.at = "idle" /\ MakeTables(PlainSchema)
  \/ \E d \in DBS, json_values \in ShareBatches :
       sink.at = "idle" /\ Insert(1, d, "t1", json_values, TRUE)
  \/ \E d \in DBS : ~sink.again /\ SinkStart(d, "t1")
  \/ SinkGroup
  \/ SinkReturn

ShareSpec == Init /\ [][ShareNext]_vars

\* the date ranges handed to the public query: the dates of the days of the
\* model, a day that does not exist, a text that is no date, and maps that
\* lack a key
ApiTexts ==
  {DateText(DayDate(n)) : n \in 1..NumDays} \cup {<<2024, 2, 30>>, NotADate}

ApiRanges ==
  UNION {[D -> ApiTexts] : D \in SUBSET {"start_date", "end_date"}}

\* a process from before its first init_timon: the public operations called
\* in any order
ApiNext ==
  \/ Quiet /\ init_timon("p1")
  \/ init_bucket
  \/ timon_list_tables("d1")
  \/ \E date_range \in ApiRanges : timon_query("d1", "t1", date_range)
  \/ timon_sink_monthly_parquet("d1", "t1")
  \/ Serving /\ Quiet /\ Insert(1, "d1", "t1", CatalogBatch, TRUE)
  \/ Serving /\ panics = {} /\ sink.at \notin {"groups", "panic"}
       /\ MakeTable({PlainSchema})
  \/ SinkGroup
  \/ SinkReturn

ApiSpec == StartInit /\ [][ApiNext]_vars

-----------------------------------------------------------------------------
(* Vocabulary of the properties *)

\* a JSON value up to the width of its number: 1 and 1.0 are the same value
Canon(v) ==
  IF v.ty \in {"i64", "u64"} THEN <<"number", 10 * v.n>>
  ELSE IF v.ty = "f64" THEN <<"number", v.n>>
  ELSE <<v.ty, v.s>>

CanonRec(r) == [f \in DOMAIN r |-> Canon(r[f])]

CanonSeq(rs) == [i \in DOMAIN rs |-> CanonRec(rs[i])]

\* the table of the day file `key` is in the metadata
HasTable(key) == key[1] \in DOMAIN meta /\ key[2] \in DOMAIN meta[key[1]]

SchemaOf(key) == meta[key[1]][key[2]].schema

\* the fields the schema marks "unique": true
UniqueFieldsOf(schema) ==
  {f \in DOMAIN schema.rules : schema.rules[f].unique = "true"}

\* the unique-key tuple of a record as it was inserted, and of a stored row
InsertedKey(rec, U) == [f \in U |-> IF f \in DOMAIN rec THEN rec[f] ELSE KindV("null")]

StoredKey(row, U) ==
  [f \in U |-> IF f \in DOMAIN row THEN Canon(row[f]) ELSE Canon(KindV("null"))]

\* the positions <<batch, index>> of the records inserted into a day file
Positions(bs) ==
  UNION {{<<b, i>> : i \in DOMAIN bs[b]} : b \in DOMAIN bs}

\* the position of the record inserted last among the positions P
Latest(P) ==
  CHOOSE p \in P : \A q \in P : q[1] < p[1] \/ (q[1] = p[1] /\ q[2] <= p[2])

-----------------------------------------------------------------------------
(* The properties *)

\* C1: when the schema of a table declares unique fields, each of its day
\* files holds at most one record per unique-key tuple after any successful
\* inserts, the insert that creates the file and batches that repeat a key
\* included.
C1_OneRecordPerKey ==
  \A key \in DOMAIN files :
    HasTable(key) /\ UniqueFieldsOf(SchemaOf(key)) # {} =>
      \A i, j \in DOMAIN files[key] :
        i # j => StoredKey(files[key][i], UniqueFieldsOf(SchemaOf(key)))
                 # StoredKey(files[key][j], UniqueFieldsOf(SchemaOf(key)))

\* C2: when two successful inserts of one day each hold a record with the
\* same unique-key value, the day file holds exactly one record with that
\* key, and it carries the values of the later insert.
C2_LaterInsertWins ==
  \A key \in DOMAIN inserted :
    HasTable(key) /\ key \in DOMAIN files
    /\ UniqueFieldsOf(SchemaOf(key)) # {} =>
      LET U == UniqueFieldsOf(SchemaOf(key))
          bs == inserted[key]
          rows == files[key]
      IN \A p, q \in Positions(bs) :
           p[1] < q[1]
           /\ InsertedKey(bs[p[1]][p[2]], U) = InsertedKey(bs[q[1]][q[2]], U) =>
             LET same == {x \in Positions(bs) :
                            InsertedKey(bs[x[1]][x[2]], U)
                            = InsertedKey(bs[q[1]][q[2]], U)}
                 last == bs[Latest(same)[1]][Latest(same)[2]]
                 held == {r \in DOMAIN rows :
                            StoredKey(rows[r], U) = StoredKey(last, U)}
             IN /\ Cardinality(held) = 1
                /\ \A r \in held, f \in DOMAIN last :
                     f \in DOMAIN rows[r] /\ Canon(rows[r][f]) = Canon(last[f])

\* C3: with no unique fields, after pairwise-distinct records were inserted
\* into a table on one day, a select-all query over that day returns exactly
\* the multiset of the records inserted that day.
C3_QueryReturnsInserted ==
  \A h \in Handles, day \in 1..NumDays :
    LET r == ret[h]
        key == <<r.db, r.tbl, day>>
    IN r.op = "query" /\ r.names = {day} /\ key \in DOMAIN inserted
       /\ HasTable(key) /\ UniqueFieldsOf(SchemaOf(key)) = {}
       /\ (\A p, q \in Positions(inserted[key]) :
             p # q => inserted[key][p[1]][p[2]] # inserted[key][q[1]][q[2]]) =>
         /\ r.ok
         /\ SeqToBag(CanonSeq(r.rows))
            = [x \in {CanonRec(inserted[key][p[1]][p[2]]) :
                        p \in Positions(inserted[key])} |-> 1]

\* C4: validation accepts a record exactly when every key of the record is
\* in the schema, every required field is present, and the runtime type of
\* each present field is one of the |-separated types of its type string.
C4_ValidationAcceptsIff ==
  vout # "none" => (vout = "ok" <=> Accepts(vin.schema, vin.record))

C4_Witness ==
  /\ vout = "ok"
  /\ DOMAIN vin.record = {"k", "v"}
  /\ vin.record["k"].ty = "f64"
  /\ vin.schema.rules["k"].type = <<"int", "|", "float">>

\* C5: when a record of the batch fails validation, insert returns an error
\* and neither creates nor modifies the day file.
C5_InvalidBatchWritesNothing ==
  \A h \in Handles :
    ret[h].op = "insert" /\ ret[h].invalid =>
      ~ret[h].ok /\ files = ret[h].pre.files

C5_Witness ==
  \E h \in Handles :
    /\ ret[h].op = "insert"
    /\ ret[h].invalid
    /\ ~ret[h].ok
    /\ <<ret[h].db, ret[h].tbl, today>> \in DOMAIN files

\* C6: create_database(name) returns an error whenever the directory of the
\* database exists or the name is a key of the metadata, and leaves the
\* metadata as it was.  (Of the interleaved calls, those no other call
\* overlaps are held to it.)
C6_CreateDatabaseRefusesKnown ==
  \A h \in Handles :
    /\ ret[h].op = "create_database"
    /\ ret[h].solo
    /\ ret[h].db \in ret[h].pre.dbDirs \/ ret[h].db \in DOMAIN ret[h].pre.meta
    => ~ret[h].ok /\ meta = ret[h].pre.meta

\* every field of the schema has a "type", and every "required" is a boolean
FieldsWellFormed(schema) ==
  \A f \in DOMAIN schema.rules :
    /\ schema.rules[f].obj
    /\ schema.rules[f].hasType
    /\ schema.rules[f].required \in {"absent", "true", "false"}

\* the four checks of create_table, on the disk as the call found it
CreateTableChecks(r) ==
  /\ r.db \in DOMAIN r.pre.meta
  /\ r.tbl \notin DOMAIN r.pre.meta[r.db]
  /\ FieldsWellFormed(r.schema)

\* C7: create_table succeeds only if the database is in the metadata, the
\* table name is not taken, every field of the schema has a type and every
\* present required is a boolean; when one of these fails it returns an
\* error and changes neither the metadata nor the directory tree.
C7_CreateTableChecked ==
  \A h \in Handles :
    ret[h].op = "create_table" =>
      /\ ret[h].ok => CreateTableChecks(ret[h])
      /\ ~CreateTableChecks(ret[h]) =>
           /\ ~ret[h].ok
           /\ Disk = ret[h].pre

C7_Witness ==
  \E h \in Handles :
    /\ ret[h].op = "create_table"
    /\ ~ret[h].ok
    /\ ret[h].db \in DOMAIN meta
    /\ ret[h].tbl \notin DOMAIN meta[ret[h].db]
    /\ ret[h].schema.json = "object"
    /\ ~FieldsWellFormed(ret[h].schema)
    /\ tblDirs # {}

\* C8: after create_database or create_table succeeded through one handle,
\* list_databases or list_tables through another handle on the same storage
\* path includes the new name, as long as no delete came in between.
C8_ListSeesOtherHandle ==
  \A h \in Handles :
    /\ ret[h].op = "list_databases" =>
         /\ ret[h].ok
         /\ \A d \in DBS : dbOwner[d] \notin {0, h} => d \in ret[h].names
    /\ ret[h].op = "list_tables" =>
         \A t \in TABLES :
           tblOwner[<<ret[h].db, t>>] \notin {0, h} =>
             ret[h].ok /\ t \in ret[h].names

C8_Witness ==
  /\ ret[2].op = "list_tables"
  /\ ret[2].db = "d1"
  /\ "t1" \in ret[2].names
  /\ tblOwner[<<"d1", "t1">>] = 1
  /\ dbOwner["d1"] = 1

\* C9: after delete_database(db) succeeded, list_databases omits db (it
\* returns the keys of the metadata, and db is none of them), and the
\* directory of db, its table directories and its day files are gone.
C9_DeleteDatabaseRemovesAll ==
  \A h \in Handles :
    /\ ret[h].op = "list_databases" => ret[h].names = DOMAIN meta
    /\ ret[h].op = "delete_database" /\ ret[h].ok =>
         /\ ret[h].db \notin DOMAIN meta
         /\ ret[h].db \notin dbDirs
         /\ \A x \in tblDirs : x[1] # ret[h].db
         /\ \A key \in DOMAIN files : key[1] # ret[h].db

C9_Witness ==
  \E h \in Handles :
    /\ ret[h].op = "delete_database"
    /\ ret[h].ok
    /\ \E key \in DOMAIN ret[h].pre.files : key[1] = ret[h].db
    /\ DOMAIN meta # {}

\* C10: in every state reached by catalog operations that each ran to
\* completion, with success or with failure, every table of the metadata
\* has its directory.
C10_TablesHaveDirectories ==
  AllIdle =>
    \A d \in DOMAIN meta : \A t \in DOMAIN meta[d] : <<d, t>> \in tblDirs

C10_Witness ==
  /\ AllIdle
  /\ \E d \in DOMAIN meta : DOMAIN meta[d] # {}
  /\ \E h \in Handles :
       /\ ret[h].op \in {"create_table", "delete_table"}
       /\ ~ret[h].ok
       /\ ret[h].err \in {"create_dir", "remove_dir"}

\* C11: an init_timon call made once the process-wide handle is bound (that
\* is, after an init_timon that returned 200) returns status 400 with the
\* message "DatabaseManager already initialized", leaves the handle bound to
\* the path of the first call, and leaves the databases and tables that the
\* metadata document of that path records as they were.
C11_SecondInitRefused ==
  [][\A path \in Paths :
       (manager # Unset /\ init_timon(path)) =>
         /\ initRet'.status = 400
         /\ initRet'.message = "DatabaseManager already initialized"
         /\ manager' = manager
         /\ meta' = meta]_vars

\* a second init_timon on the bound path was refused while the document of the
\* path recorded the table d1.t1
C11_Witness ==
  /\ initRet.status = 400
  /\ initRet.path = initRet.before
  /\ initRet.store.metadata
  /\ "d1" \in DOMAIN initRet.pre
  /\ "t1" \in DOMAIN initRet.pre["d1"]
  /\ meta = initRet.pre

\* the days from a fixed day to the day d of month m of year y, by the
\* civil-calendar formula (the year taken to begin in March)
DayNumber(y, m, d) ==
  LET yy == IF m <= 2 THEN y - 1 ELSE y
      mm == IF m <= 2 THEN m + 12 ELSE m
  IN 365 * yy + (yy \div 4) - (yy \div 100) + (yy \div 400)
       + ((153 * (mm - 3) + 2) \div 5) + d

\* the month after month m of year y
MonthAfter(y, m) == IF m = 12 THEN <<y + 1, 1>> ELSE <<y, m + 1>>

\* <<y, m, d>> is a day of the calendar
CalendarDay(y, m, d) ==
  /\ m \in 1..12
  /\ d >= 1
  /\ DayNumber(y, m, d) <
       DayNumber(MonthAfter(y, m)[1], MonthAfter(y, m)[2], 1)

\* generate_paths returned Ok for the granularity
Planned(granularity) ==
  /\ vout.at = "Ok"
  /\ vin.granularity = granularity

\* the stamps of the paths returned, in order
Stamps == [i \in DOMAIN vout.file_list |-> vout.file_list[i].stamp]

PlanStart == DayNumber(vin.start_date[1], vin.start_date[2], vin.start_date[3])
PlanEnd == DayNumber(vin.end_date[1], vin.end_date[2], vin.end_date[3])

\* C12: with Day granularity generate_paths returns one path for each
\* calendar day d with start <= d <= end and no other, in ascending order of
\* the dates, each <base>/<file_name>_YYYY-MM-DD.parquet (none when start >
\* end); for 2024-01-30..2024-02-02 these are 01-30, 01-31, 02-01, 02-02.
C12_DayPathsCoverRange ==
  Planned("Day") =>
    /\ Len(vout.file_list) =
         (IF PlanStart <= PlanEnd THEN PlanEnd - PlanStart + 1 ELSE 0)
    /\ \A i \in DOMAIN vout.file_list :
         LET path == vout.file_list[i]
         IN /\ path.prefix = ""
            /\ path.base = vin.base_dir
            /\ path.name = vin.file_name
            /\ path.ext = "parquet"
            /\ Len(path.stamp) = 3
            /\ CalendarDay(path.stamp[1], path.stamp[2], path.stamp[3])
            /\ DayNumber(path.stamp[1], path.stamp[2], path.stamp[3]) =
                 PlanStart + i - 1
    /\ (vin.start_date = <<2024, 1, 30>> /\ vin.end_date = <<2024, 2, 2>>) =>
         Stamps = << <<2024, 1, 30>>, <<2024, 1, 31>>, <<2024, 2, 1>>,
                     <<2024, 2, 2>> >>

\* the Day paths of 2024-02-15..2024-03-01 were returned: sixteen of them,
\* the leap day among them
C12_Witness ==
  /\ Planned("Day")
  /\ vin.start_date = <<2024, 2, 15>>
  /\ vin.end_date = <<2024, 3, 1>>
  /\ Len(vout.file_list) = 16
  /\ Stamps[15] = <<2024, 2, 29>>

\* the months whose first day lies in [start, end]
MonthsBeginningInRange ==
  {ym \in (PlanYears \cup {2025}) \X (1..12) :
     /\ PlanStart <= DayNumber(ym[1], ym[2], 1)
     /\ DayNumber(ym[1], ym[2], 1) <= PlanEnd}

\* C13: with Month granularity generate_paths returns one entry for each
\* calendar month whose first day lies in [start, end], and no entry for any
\* other month.
C13_MonthPathsCoverRange ==
  Planned("Month") =>
    /\ Range(Stamps) = MonthsBeginningInRange
    /\ Len(Stamps) = Cardinality(MonthsBeginningInRange)

\* generate_paths returned with Month granularity and a month whose first
\* day lies in [start, end] has no entry
C13_MonthMissing ==
  /\ Planned("Month")
  /\ \E ym \in MonthsBeginningInRange : ym \notin Range(Stamps)

\* C14: with Month granularity the entries are consecutive calendar months,
\* each the month after the entry before it (January of the next year after
\* December), whatever the day of the month of start; for
\* 2024-01-30..2024-02-02 they are 2024-01, 2024-02.
C14_MonthPathsConsecutive ==
  Planned("Month") =>
    /\ \A i \in DOMAIN Stamps :
         i > 1 => Stamps[i] = MonthAfter(Stamps[i - 1][1], Stamps[i - 1][2])
    /\ (vin.start_date = <<2024, 1, 30>> /\ vin.end_date = <<2024, 2, 2>>) =>
         Stamps = << <<2024, 1>>, <<2024, 2>> >>

\* for 2024-01-30..2024-02-02 generate_paths returned 2024-01 alone
C14_FebruarySkipped ==
  /\ Planned("Month")
  /\ vin.start_date = <<2024, 1, 30>>
  /\ vin.end_date = <<2024, 2, 2>>
  /\ Stamps = << <<2024, 1>> >>

\* the day files of the table a query asked for that existed, as the query
\* began, for the days of its range
InRangeFiles(r) ==
  {day \in r.names : <<r.db, r.tbl, day>> \in DOMAIN r.pre.files}

\* C15: when no day file of the days start..end exists (start > end
\* included), query returns the error "No valid tables found to query." and
\* nothing else: no rows, no other error, no panic.
C15_NoFilesNoValidTables ==
  \A h \in Handles :
    (ret[h].op = "query" /\ InRangeFiles(ret[h]) = {}) =>
      /\ ~ret[h].ok
      /\ ret[h].err = "no_valid_tables"
      /\ ret[h].rows = <<>>

\* a query over a day without a file failed while the table held a file of
\* another day
C15_Witness ==
  \E h \in Handles :
    /\ ret[h].op = "query"
    /\ ret[h].names # {}
    /\ InRangeFiles(ret[h]) = {}
    /\ ret[h].err = "no_valid_tables"
    /\ \E key \in DOMAIN ret[h].pre.files :
         key[1] = ret[h].db /\ key[2] = ret[h].tbl

\* the rows of the day files in fs of table d.t for the days in days, as a bag
RECURSIVE RowsOfDays(_, _, _, _)
RowsOfDays(fs, d, t, days) ==
  IF days = {} THEN EmptyBag
  ELSE LET day == CHOOSE x \in days : TRUE
       IN SeqToBag(fs[<<d, t, day>>]) (+) RowsOfDays(fs, d, t, days \ {day})

\* C16: a query over [start, end] for which some day file of the range exists
\* succeeds and returns the rows of the existing day files of the range, all
\* of them and no others; days of the range without a file are skipped.
C16_QueryReadsRangeFiles ==
  \A h \in Handles :
    (ret[h].op = "query" /\ InRangeFiles(ret[h]) # {}) =>
      /\ ret[h].ok
      /\ SeqToBag(ret[h].rows) =
           RowsOfDays(ret[h].pre.files, ret[h].db, ret[h].tbl,
                      InRangeFiles(ret[h]))

\* a query over two days that both have a file failed in planning
C16_RangeQueryFailed ==
  \E h \in Handles :
    /\ ret[h].op = "query"
    /\ Cardinality(InRangeFiles(ret[h])) = 2
    /\ \A day \in InRangeFiles(ret[h]) :
         ret[h].pre.files[<<ret[h].db, ret[h].tbl, day>>] # <<>>
    /\ ret[h].err = "plan"

\* the day files table d.t has in fs whose names carry a month before
\* (earlier = TRUE) or equal to (earlier = FALSE) the month of day `now`
DayFilesOf(fs, d, t, now, earlier) ==
  {key \in DOMAIN fs :
     /\ key[1] = d /\ key[2] = t
     /\ IF earlier
          THEN MonthLT(extract_year_month(key[3]), extract_year_month(now))
          ELSE extract_year_month(key[3]) = extract_year_month(now)}

\* C17: when sink_monthly_parquet(db, table) returns Ok, every day file the
\* table had of a month before the current UTC month is gone, and so is the
\* local monthly aggregate of that month; every day file of the current
\* month is present with the content it had.
C17_SinkEvictsPastMonths ==
  [][(sink.at = "groups" /\ sink'.at = "Ok") =>
       /\ \A key \in DayFilesOf(sink.pre.files, sink.db, sink.tbl, today, TRUE) :
            /\ key \notin DOMAIN files'
            /\ <<key[1], key[2], extract_year_month(key[3])>>
                 \notin DOMAIN monthly'
       /\ \A key \in DayFilesOf(sink.pre.files, sink.db, sink.tbl, today, FALSE) :
            /\ key \in DOMAIN files'
            /\ files'[key] = sink.pre.files[key]]_vars

\* sink_monthly_parquet returned Ok and a day file of a month before the
\* current month is still in the table directory
C17_PastDayFileKept ==
  /\ sink.at = "Ok"
  /\ files = sink.post.files
  /\ DayFilesOf(files, sink.db, sink.tbl, today, TRUE) # {}

\* C18: a sink_monthly_parquet call that follows another one of the same
\* table with no insert between them leaves the bucket with the objects and
\* the contents the first call left, and removes no day file of the current
\* month.
C18_SecondSinkChangesNothing ==
  sink.again =>
    /\ bucket = sink.pre.bucket
    /\ \A key \in DayFilesOf(sink.pre.files, sink.db, sink.tbl, today, FALSE) :
         key \in DOMAIN files

\* a second call in a row put an object into the bucket, the first call
\* having failed in the merge of a month before any upload or eviction failed
C18_SecondSinkUploaded ==
  /\ sink.again
  /\ sink.prior = "plan"
  /\ DOMAIN bucket # DOMAIN sink.pre.bucket

\* C19: in sink_monthly_parquet a failed upload of a month's aggregate does
\* not fail the call (the call fails, if it does, on something else) and the
\* other month groups are still processed: a call that returns Ok has been
\* through every group.  A failed removal of a local file of an earlier
\* month ends the call with an error at that group: no group is processed
\* after it.
C19_UploadLoggedEvictionAborts ==
  /\ \A i \in DOMAIN sink.log :
       /\ (sink.log[i].upload = "failed" /\ sink.log[i].evict # "failed") =>
            ~(i = Len(sink.log) /\ sink.at = "Err")
       /\ sink.log[i].evict = "failed" =>
            /\ i = Len(sink.log)
            /\ sink.at = "Err"
            /\ sink.err = "remove_file"
  /\ sink.at = "Ok" =>
       {sink.log[i].month : i \in DOMAIN sink.log} = DOMAIN sink.groups

\* a call whose first group failed to upload went on to its second group,
\* and ended with an error there as a day file of January was not removed
C19_Witness ==
  /\ sink.at = "Err"
  /\ sink.err = "remove_file"
  /\ Len(sink.log) = 2
  /\ sink.log[1].upload = "failed"
  /\ sink.log[2].evict = "failed"
  /\ \E key \in DOMAIN files : extract_year_month(key[3]) = sink.log[2].month

\* e is a TimonResult that answers an operation which succeeded (ok) or
\* failed with the error text err
Answers(e, ok, err) ==
  /\ e.status \in {200, 400}
  /\ e.status = 200 <=> ok
  /\ e.status = 400 =>
       /\ e.message = err
       /\ ~e.json_value.some

\* C20: every public operation returns a TimonResult whose status is 200
\* exactly when the catalog, insert, query or sink operation under it
\* succeeded and 400 otherwise; with status 400 the message is the error
\* text and there is no json_value.
C20_EnvelopeFollowsResult ==
  /\ \A h \in Handles :
       ret[h].op # "" => Answers(Envelope(ret[h]), ret[h].ok, ret[h].err)
  /\ Ended(sink.at) => Answers(SinkEnvelope(sink), sink.at = "Ok", sink.err)

\* sink_monthly_parquet was called for a table the catalog does not have and
\* returned no TimonResult
C20_SinkUnwound ==
  /\ sink.at = "panic"
  /\ ~(sink.db \in DOMAIN meta /\ sink.tbl \in DOMAIN meta[sink.db])
  /\ SinkEnvelope(sink) = Unwound

\* C21: every public operation that fails returns a TimonResult of status
\* 400 and never aborts its caller by a panic: not when it is called before
\* init_timon (or, a bucket operation, before init_bucket), not a query
\* whose date range lacks a date or holds a text that is no YYYY-MM-DD date,
\* not sink_monthly_parquet on a table that does not exist.
C21_FailuresAreEnvelopes ==
  /\ panics = {}
  /\ sink.at # "panic"
  /\ \A h \in Handles :
       (ret[h].op # "" /\ ~ret[h].ok) => Envelope(ret[h]).status = 400
  /\ sink.at = "Err" => SinkEnvelope(sink).status = 400

\* after init_timon and an insert, a query was called with a date range
\* whose dates are no dates of the calendar, and unwound
C21_QueryUnwound ==
  /\ manager # Unset
  /\ files # EmptyFn
  /\ <<"query", "generate_paths">> \in panics

\* C22: sink_monthly_parquet keeps one bucket object per (database, table,
\* month): a call for table t of one database never overwrites or replaces
\* the object the bucket holds for month m of the same-named table t of
\* another database (the object uploaded from that table's monthly
\* aggregate of m).
C22_ObjectPerDatabaseTableMonth ==
  [][\A key \in DOMAIN monthly :
       LET object == <<key[2], key[3]>>
       IN (/\ sink.at = "groups"
           /\ key[1] # sink.db
           /\ key[2] = sink.tbl
           /\ object \in DOMAIN bucket
           /\ bucket[object] = monthly[key])
          => /\ object \in DOMAIN bucket'
             /\ bucket'[object] = bucket[object]]_vars

\* both databases have the aggregate of January of their table t1, of
\* different content, and the bucket holds one object: that of the database
\* sunk last
C22_ObjectReplaced ==
  /\ sink.at = "Ok"
  /\ \A d \in DBS : <<d, "t1", <<2024, 1>> >> \in DOMAIN monthly
  /\ monthly[<<"d1", "t1", <<2024, 1>> >>] # monthly[<<"d2", "t1", <<2024, 1>> >>]
  /\ DOMAIN bucket = {<<"t1", <<2024, 1>> >>}
  /\ bucket[<<"t1", <<2024, 1>> >>] = monthly[<<sink.db, "t1", <<2024, 1>> >>]

\* the batches bs one after another, as one sequence of records
RECURSIVE Concat(_)
Concat(bs) == IF bs = <<>> THEN <<>> ELSE Head(bs) \o Concat(Tail(bs))

\* the rows are the records recs, position by position: each row holds every
\* field of its record with the value the record gave it
RowsFollow(rows, recs) ==
  /\ Len(rows) = Len(recs)
  /\ \A i \in DOMAIN recs :
       \A f \in DOMAIN recs[i] :
         f \in DOMAIN rows[i] /\ Canon(rows[i][f]) = Canon(recs[i][f])

C24_DeleteNotRolledBack ==
  [][\A h \in Handles :
       (/\ pc[h] \in {"dd_rmdir", "dt_rmdir"}
        /\ pc'[h] = "idle"
        /\ dbDirs' = dbDirs
        /\ tblDirs' = tblDirs)
       => /\ ~ret'[h].ok
          /\ ret'[h].err = "remove_dir"
          /\ meta' = meta
          /\ ret'[h].db \in DOMAIN ret'[h].pre.meta
          /\ IF pc[h] = "dd_rmdir"
               THEN meta' = Without(ret'[h].pre.meta, ret'[h].db)
               ELSE /\ ret'[h].tbl \in DOMAIN ret'[h].pre.meta[ret'[h].db]
                    /\ meta' = [ret'[h].pre.meta EXCEPT
                                  ![ret'[h].db] = Without(@, ret'[h].tbl)]]_vars

\* delete_table returned the error of the directory removal: the directory
\* and a day file of the table are on the disk, the document has the database
\* and not the table
C24_Witness ==
  \E h \in Handles :
    /\ ret[h].op = "delete_table"
    /\ ret[h].err = "remove_dir"
    /\ <<ret[h].db, ret[h].tbl>> \in tblDirs
    /\ \E key \in DOMAIN files : key[1] = ret[h].db /\ key[2] = ret[h].tbl
    /\ ret[h].db \in DOMAIN meta
    /\ ret[h].tbl \notin DOMAIN meta[ret[h].db]
    /\ ret[h].tbl \in DOMAIN ret[h].pre.meta[ret[h].db]

\* C25: the SQL that query runs on combined_table is the user's SQL with
\* `combined_table` in the place of the table name of its FROM clause, the
\* name query extracts, and every other part of the text as the user wrote
\* it: the columns, the values and the names that equal or contain the name
\* of the table.
C25_OnlyTableReferenceRewritten ==
  vout.at = "adjusted" =>
    /\ vout.file_name = vin.parts.table
    /\ vout.adjusted_sql_query =
         SqlText([vin.parts EXCEPT !.table = <<"combined_table">>])

\* SELECT k FROM t1 WHERE k = 't1' was rewritten, and the value it compares k
\* with is no longer 't1'
C25_LiteralRewritten ==
  /\ vout.at = "adjusted"
  /\ vin.sql_query = <<"SELECT", " ", "k", " ", "FROM", " ", "t", "1", " ",
                        "WHERE", " ", "k", " ", "=", " ", "'", "t", "1", "'">>
  /\ vout.adjusted_sql_query =
       <<"SELECT", " ", "k", " ", "FROM", " ", "combined_table", " ", "WHERE",
         " ", "k", " ", "=", " ", "'", "combined_table", "'">>

\* C26: sink_monthly_parquet removes a local day file only if the records
\* of the file were merged into a monthly aggregate that was uploaded: when
\* a day file that holds records goes, the bucket has the object of its
\* table and month, and the object holds the records of the file.  So every
\* record inserted stays in a local day file or in an object of the bucket,
\* uploads and reads of day files failing or not.
C26_EvictedOnlyAfterUpload ==
  [][\A key \in DOMAIN files :
       (key \notin DOMAIN files' /\ files[key] # <<>>) =>
         LET object == <<key[2], extract_year_month(key[3])>>
         IN /\ object \in DOMAIN bucket'
            /\ SeqToBag(files[key]) \sqsubseteq SeqToBag(bucket'[object])]_vars

\* a call failed to upload the aggregate of a month and evicted the day
\* files of the month: records were inserted into the table in that month,
\* no day file of the month is left, and the bucket has no object
C26_RecordsLost ==
  /\ Ended(sink.at)
  /\ bucket = EmptyFn
  /\ \E i \in DOMAIN sink.log :
       /\ sink.log[i].upload = "failed"
       /\ sink.log[i].evict = "done"
       /\ \E key \in DOMAIN inserted :
            /\ key[1] = sink.db /\ key[2] = sink.tbl
            /\ extract_year_month(key[3]) = sink.log[i].month
            /\ sink.pre.files[key] # <<>>
       /\ \A key \in DOMAIN files :
            extract_year_month(key[3]) # sink.log[i].month

\* C27: an insert that returns an error, whatever the error (unknown table,
\* validation, column inference, construction of the record batch, writing
\* of the file), leaves the day files with the records they had before the
\* call.
C27_FailedInsertKeepsDayFile ==
  [][\A h \in Handles :
       (/\ pc[h] = "idle"
        /\ ret' # ret
        /\ ret'[h].op = "insert"
        /\ ~ret'[h].ok)
       => files' = files]_vars

\* an insert failed in the construction of the record batch, and the day
\* file, which held records as the call began, holds none
C27_DayFileTruncated ==
  \E h \in Handles :
    /\ ret[h].op = "insert"
    /\ ret[h].err = "record_batch"
    /\ <<ret[h].db, ret[h].tbl, today>> \in DOMAIN ret[h].pre.files
    /\ ret[h].pre.files[<<ret[h].db, ret[h].tbl, today>>] # <<>>
    /\ files[<<ret[h].db, ret[h].tbl, today>>] = <<>>

\* C28: with two catalog writers running concurrently, each operation
\* reloading the metadata, changing its copy and writing the whole document
\* back with no lock, every database and every table whose create_database
\* or create_table returned success, and that no call deleted afterwards, is
\* in the metadata document once both writers have finished.
C28_ConcurrentCreatesKept ==
  AllIdle =>
    /\ \A d \in DBS : dbOwner[d] # 0 => d \in DOMAIN meta
    /\ \A x \in DBS \X TABLES :
         tblOwner[x] # 0 => x[1] \in DOMAIN meta /\ x[2] \in DOMAIN meta[x[1]]

\* both writers have finished, create_database has returned success for d1
\* to the one and for d2 to the other, both directories exist, and the
\* document has one of the two databases
C28_CreateLost ==
  /\ AllIdle
  /\ dbOwner["d1"] # 0
  /\ dbOwner["d2"] # 0
  /\ dbOwner["d1"] # dbOwner["d2"]
  /\ dbDirs = DBS
  /\ Cardinality(DOMAIN meta) = 1

\* the unique-key tuples of the records rs
KeysOf(rs, U) == {StoredKey(rs[i], U) : i \in DOMAIN rs}

\* C29: for a table with unique fields, after a successful insert the
\* unique-key tuples in the day file are those that were in the file before
\* the insert together with those of the inserted batch, none dropped and
\* none added; and a record whose key occurs once, in the file and the batch
\* together, is in the file with the values of its fields unchanged.
C29_DedupKeepsEveryKey ==
  [][\A h \in Handles :
       LET key == <<ret'[h].db, ret'[h].tbl, today>>
           U == UniqueFieldsOf(SchemaOf(key))
           before == IF key \in DOMAIN files THEN files[key] ELSE <<>>
           batch == inserted'[key][Len(inserted'[key])]
           all == before \o batch
       IN (/\ pc[h] = "idle"
           /\ ret' # ret
           /\ ret'[h].op = "insert"
           /\ ret'[h].ok
           /\ U # {})
          => /\ KeysOf(files'[key], U) = KeysOf(before, U) \cup KeysOf(batch, U)
             /\ \A i \in DOMAIN all :
                  (\A j \in DOMAIN all :
                     j # i => StoredKey(all[j], U) # StoredKey(all[i], U))
                  => \E r \in DOMAIN files'[key] :
                       \A f \in DOMAIN all[i] :
                         /\ f \in DOMAIN files'[key][r]
                         /\ Canon(files'[key][r][f]) = Canon(all[i][f])]_vars

\* an insert of a record with the key "a" returned success on a file that
\* held a record with the key 1, and no record of the file has the key 1
C29_KeyDropped ==
  /\ ret[1].op = "insert"
  /\ ret[1].ok
  /\ <<"d1", "t1", today>> \in DOMAIN ret[1].pre.files
  /\ \E i \in DOMAIN ret[1].pre.files[<<"d1", "t1", today>>] :
       ret[1].pre.files[<<"d1", "t1", today>>][i]["k"] = IntV(1)
  /\ \E i \in DOMAIN files[<<"d1", "t1", today>>] :
       files[<<"d1", "t1", today>>][i]["k"] = StrV("a")
  /\ \A i \in DOMAIN files[<<"d1", "t1", today>>] :
       Canon(files[<<"d1", "t1", today>>][i]["k"]) # Canon(IntV(1))

\* C30: generate_paths with Month granularity, once both dates are parsed,
\* leaves its loop and returns Ok(file_list), whatever the two dates are.
C30_MonthPathsTerminate ==
  (vin.granularity = "Month" /\ vout.at = "loop") ~> (vout.at = "Ok")

\* the Month loop is at a month it has already listed and the end date is
\* not passed: a start in December 2023 has come back to it by way of
\* January 2023
C30_MonthListedTwice ==
  /\ vin.granularity = "Month"
  /\ vin.start_date = <<2023, 12, 1>>
  /\ vout.at = "loop"
  /\ DateLE(vout.current_date, vout.end_date)
  /\ vout.current_date = Date(2023, 12, 1)
  /\ \E i \in DOMAIN vout.file_list :
       vout.file_list[i] = PathOf(vin.base_dir, vin.file_name,
                                  vout.current_date, "Month", vin.is_s3)

=============================================================================
